---- MODULE Spec2Model ----
(***************************************************************************)
(* Model of the usage-report generator: the paginated cost fetchers        *)
(* (fetchOpenAICosts, fetchClaudeCosts), the Claude normalization          *)
(* (claudeBucketToCostBucket) and the aggregator (aggregateCosts).         *)
(*                                                                         *)
(* Representation of JavaScript values                                     *)
(*   string            a sequence of one-character strings, "" is << >>    *)
(*   string | null     [t |-> "null"] or [t |-> "string", s |-> chars]     *)
(*   number            [t |-> "number", n |-> i], i counted in units of    *)
(*                     1/Scale (a decimal fixed point), or [t |-> "NaN"]   *)
(*   undefined         [t |-> "undefined"]                                 *)
(* Instants are whole unix seconds.                                        *)
(***************************************************************************)
EXTENDS Integers, Sequences, FiniteSets, TLC

VARIABLES provider, pc, nextPage, allBuckets, requests, responses, inflight,
          outcome, vendorResult, costResult, buckets, aggregated,
          dateStr, dateResult, rangeStart, rangeEnd, rangeResult,
          report, markdown, csv, config, startTime, endTime, runs, cli

vars == <<provider, pc, nextPage, allBuckets, requests, responses, inflight,
          outcome, vendorResult, costResult, buckets, aggregated,
          dateStr, dateResult, rangeStart, rangeEnd, rangeResult,
          report, markdown, csv, config, startTime, endTime, runs, cli>>

fetchVars == <<provider, pc, nextPage, allBuckets, requests, responses,
               inflight, outcome, config, startTime, endTime>>
normVars == <<vendorResult, costResult>>
aggVars == <<buckets, aggregated>>
dateVars == <<dateStr, dateResult, rangeStart, rangeEnd, rangeResult>>
reportVars == <<report, markdown, csv>>
hostVars == <<runs, cli>>

(* ------------------------------ bounds --------------------------------- *)
MaxRequests == 3
MaxBuckets == 2

(* ------------------------- JavaScript values --------------------------- *)
Scale == 100 * 100
SecondsPerDay == 24 * 60 * 60

Null == [t |-> "null"]
Undefined == [t |-> "undefined"]
NaN == [t |-> "NaN"]
Str(chars) == [t |-> "string", s |-> chars]
Num(i) == [t |-> "number", n |-> i]
None == [kind |-> "none"]

Digits == <<"0", "1", "2", "3", "4", "5", "6", "7", "8", "9">>
IsDigit(c) == \E i \in 1..10 : Digits[i] = c
DigitVal(c) == (CHOOSE i \in 1..10 : Digits[i] = c) - 1
DigitChar(d) == Digits[d + 1]

\* ToBoolean of a JavaScript value: null, undefined, "", 0 and NaN are falsy.
Truthy(v) ==
  CASE v.t = "string" -> v.s # << >>
    [] v.t = "number" -> v.n # 0
    [] OTHER -> FALSE

\* a ?? b
Coalesce(a, b) == IF a.t = "null" \/ a.t = "undefined" THEN b ELSE a

\* a || b
OrElse(a, b) == IF Truthy(a) THEN a ELSE b

RECURSIVE Concat(_)
Concat(seqs) == IF seqs = << >> THEN << >> ELSE Head(seqs) \o Concat(Tail(seqs))

RECURSIVE Pow10(_)
Pow10(k) == IF k = 0 THEN 1 ELSE 10 * Pow10(k - 1)

RECURSIVE DigitRun(_)
\* the longest prefix of chars made of decimal digits
DigitRun(chars) ==
  IF chars # << >> /\ IsDigit(Head(chars))
  THEN <<Head(chars)>> \o DigitRun(Tail(chars))
  ELSE << >>

RECURSIVE DigitsValue(_)
DigitsValue(ds) ==
  IF ds = << >> THEN 0
  ELSE DigitsValue(SubSeq(ds, 1, Len(ds) - 1)) * 10 + DigitVal(ds[Len(ds)])

Drop(chars, k) == SubSeq(chars, k + 1, Len(chars))

\* the first FracWidth fraction digits, counted in units of 1/Scale
FracWidth == 2 + 2
FracUnits(ds) ==
  LET kept == SubSeq(ds, 1, IF Len(ds) < FracWidth THEN Len(ds) ELSE FracWidth)
  IN  DigitsValue(kept) * Pow10(FracWidth - Len(kept))

(* parseFloat: optional sign, the longest prefix of the form                *)
(* digits [. digits] or . digits, NaN when there is no such prefix.         *)
parseFloat(chars) ==
  LET neg == chars # << >> /\ Head(chars) = "-"
      body == IF chars # << >> /\ (Head(chars) = "-" \/ Head(chars) = "+")
              THEN Tail(chars) ELSE chars
      ip == DigitRun(body)
      rest == Drop(body, Len(ip))
      fp == IF rest # << >> /\ Head(rest) = "." THEN DigitRun(Tail(rest)) ELSE << >>
      mag == DigitsValue(ip) * Scale + FracUnits(fp)
  IN  IF ip = << >> /\ fp = << >> THEN NaN
      ELSE Num(IF neg THEN 0 - mag ELSE mag)

\* a / 100 on numbers; NaN is absorbing
DivideBy100(v) == IF v.t = "NaN" THEN NaN ELSE Num(v.n \div 100)

\* a + b on numbers; NaN is absorbing
Plus(a, b) == IF a.t = "NaN" \/ b.t = "NaN" THEN NaN ELSE Num(a.n + b.n)

\* a / d for a positive whole number d; NaN is absorbing
DivideByCount(v, d) == IF v.t = "NaN" THEN NaN ELSE Num(v.n \div d)

RECURSIVE NatToChars(_)
NatToChars(n) ==
  IF n < 10 THEN <<DigitChar(n)>> ELSE NatToChars(n \div 10) \o <<DigitChar(n % 10)>>

RECURSIVE StripZeros(_)
StripZeros(ds) ==
  IF ds # << >> /\ ds[Len(ds)] = "0" THEN StripZeros(SubSeq(ds, 1, Len(ds) - 1)) ELSE ds

\* String(v): the shortest decimal text of a number
NumberToString(v) ==
  IF v.t = "NaN" THEN <<"N", "a", "N">>
  ELSE LET mag == IF v.n < 0 THEN 0 - v.n ELSE v.n
           frac == StripZeros([i \in 1..FracWidth |->
                     DigitChar(((mag % Scale) \div Pow10(FracWidth - i)) % 10)])
       IN  (IF v.n < 0 THEN <<"-">> ELSE << >>)
             \o NatToChars(mag \div Scale)
             \o (IF frac = << >> THEN << >> ELSE <<".">> \o frac)

(* ------------------------------ calendar -------------------------------- *)
\* days since 1970-01-01 of the proleptic Gregorian date y-m-d
DaysFromCivil(y, m, d) ==
  LET yy == IF m <= 2 THEN y - 1 ELSE y
      era == yy \div 400
      yoe == yy - era * 400
      mp == IF m > 2 THEN m - 3 ELSE m + 9
      doy == (153 * mp + 2) \div 5 + d - 1
      doe == yoe * 365 + yoe \div 4 - yoe \div 100 + doy
  IN  era * 146097 + doe - 719468

\* the Gregorian date of a day number
CivilFromDays(z0) ==
  LET z == z0 + 719468
      era == z \div 146097
      doe == z - era * 146097
      yoe == (doe - doe \div 1460 + doe \div 36524 - doe \div 146096) \div 365
      doy == doe - (365 * yoe + yoe \div 4 - yoe \div 100)
      mp == (5 * doy + 2) \div 153
      d == doy - (153 * mp + 2) \div 5 + 1
      m == IF mp < 10 THEN mp + 3 ELSE mp - 9
      y == yoe + era * 400 + (IF m <= 2 THEN 1 ELSE 0)
  IN  [y |-> y, m |-> m, d |-> d]

Pad(n, width) == [i \in 1..width |-> DigitChar((n \div Pow10(width - i)) % 10)]

\* the calendar day of a clock five hours behind UTC
isoDateOfSeconds_localTime(seconds) ==
  LET c == CivilFromDays((seconds - 5 * 3600) \div SecondsPerDay)
  IN  Pad(c.y, 4) \o <<"-">> \o Pad(c.m, 2) \o <<"-">> \o Pad(c.d, 2)

\* new Date(seconds * 1000).toISOString().split('T')[0]
isoDateOfSeconds(seconds) ==
  LET c == CivilFromDays(seconds \div SecondsPerDay)
  IN  Pad(c.y, 4) \o <<"-">> \o Pad(c.m, 2) \o <<"-">> \o Pad(c.d, 2)

IsLeapYear(y) == (y % 4 = 0 /\ y % 100 # 0) \/ y % 400 = 0

DaysInMonth(y, m) ==
  IF m = 2 THEN (IF IsLeapYear(y) THEN 29 ELSE 28)
  ELSE IF m \in {4, 6, 9, 11} THEN 30 ELSE 31

\* Math.floor(new Date(text).getTime() / 1000) for text YYYY-MM-DDTHH:MM:SSZ
unixSecondsOfRfc3339(text) ==
  LET f(a, b) == DigitsValue(SubSeq(text, a, b))
  IN  DaysFromCivil(f(1, 4), f(6, 7), f(9, 10)) * SecondsPerDay
        + f(12, 13) * 3600 + f(15, 16) * 60 + f(18, 19)

(* ------------------------ Claude normalization -------------------------- *)
\* the join without filter(Boolean): null and "" are joined as empty strings
joinModelCostType_noFilter(r) ==
  (IF r.model.t = "string" THEN r.model.s ELSE << >>) \o <<" ">>
    \o (IF r.cost_type.t = "string" THEN r.cost_type.s ELSE << >>)

\* [r.model, r.cost_type].filter(Boolean).join(' ')
joinModelCostType(r) ==
  LET kept == SelectSeq(<<r.model, r.cost_type>>, Truthy)
  IN  IF kept = << >> THEN << >>
      ELSE IF Len(kept) = 1 THEN kept[1].s
      ELSE kept[1].s \o <<" ">> \o kept[2].s

Unknown == <<"u", "n", "k", "n", "o", "w", "n">>
\* the label without the final || 'unknown'
claudeLineItem_noFallback(r) == Coalesce(r.description, Str(joinModelCostType(r))).s

\* (r.description ?? [r.model, r.cost_type].filter(Boolean).join(' ')) || 'unknown'
claudeLineItem(r) ==
  OrElse(Coalesce(r.description, Str(joinModelCostType(r))), Str(Unknown)).s

\* the amount left in cents
claudeCostUsd_noDivide(r) == parseFloat(r.amount)

\* parseFloat(r.amount) / 100
claudeCostUsd(r) == DivideBy100(parseFloat(r.amount))

\* the callback of b.results.map
claudeResultToCostResult(r) ==
  [object |-> "organization.costs.result",
   amount |-> [value |-> claudeCostUsd(r), currency |-> r.currency],
   line_item |-> Str(claudeLineItem(r)),
   project_id |-> Null]

\* the bucket with its results in reverse vendor order
claudeBucketToCostBucket_reversed(b) ==
  [object |-> "bucket",
   start_time |-> unixSecondsOfRfc3339(b.starting_at),
   end_time |-> unixSecondsOfRfc3339(b.ending_at),
   results |-> [i \in 1..Len(b.results) |->
                  claudeResultToCostResult(b.results[Len(b.results) + 1 - i])]]

claudeBucketToCostBucket(b) ==
  [object |-> "bucket",
   start_time |-> unixSecondsOfRfc3339(b.starting_at),
   end_time |-> unixSecondsOfRfc3339(b.ending_at),
   results |-> [i \in 1..Len(b.results) |-> claudeResultToCostResult(b.results[i])]]

(* --------------------------- the vendor servers ------------------------- *)
Day2024Jan01 == DaysFromCivil(2024, 1, 1) * SecondsPerDay
Jan01 == <<"2","0","2","4","-","0","1","-","0","1","T","0","0",":","0","0",":","0","0","Z">>
Jan02 == <<"2","0","2","4","-","0","1","-","0","2","T","0","0",":","0","0",":","0","0","Z">>
Jan03 == <<"2","0","2","4","-","0","1","-","0","3","T","0","0",":","0","0",":","0","0","Z">>

OpenAIResult(item, value) ==
  [object |-> "organization.costs.result",
   amount |-> [value |-> value, currency |-> "USD"],
   line_item |-> item,
   project_id |-> Str(<<"p">>)]

OpenAIBucket(day, results) ==
  [object |-> "bucket",
   start_time |-> Day2024Jan01 + day * SecondsPerDay,
   end_time |-> Day2024Jan01 + (day + 1) * SecondsPerDay,
   results |-> results]

ClaudeResult(amount, description, model, costType) ==
  [amount |-> amount, currency |-> "USD", description |-> description,
   model |-> model, cost_type |-> costType]

\* the bucket lists an organization-costs page can carry
OpenAIPages ==
  { << >>,
    << OpenAIBucket(0, << OpenAIResult(Str(<<"a">>), Num(15000)) >>) >>,
    << OpenAIBucket(1, << OpenAIResult(Null, Str(<<"0", ".", "5">>)),
                          OpenAIResult(Str(<< >>), Num(20000)) >>) >> }

\* the bucket lists a cost_report page can carry
ClaudePages ==
  { << >>,
    << [starting_at |-> Jan01, ending_at |-> Jan02,
        results |-> << ClaudeResult(<<"1","2","3",".","4","5">>, Str(<<"d">>), Null, Null) >>] >>,
    << [starting_at |-> Jan02, ending_at |-> Jan03,
        results |-> << ClaudeResult(<<"1","0","0">>, Null, Str(<<"m">>), Str(<<"t">>)),
                       ClaudeResult(<<"5","0">>, Str(<< >>), Str(<<"m">>), Null) >>] >> }

\* the next_page values a response can carry
Cursors == {Null, Str(<< >>), Str(<<"p", "2">>), Str(<<"p", "3">>)}

OpenAIResponses ==
  [data : OpenAIPages, has_more : BOOLEAN, next_page : Cursors]
ClaudeResponses ==
  [data : ClaudePages, has_more : BOOLEAN, next_page : Cursors]

(***************************************************************************)
(* parseDate and validateDateRange.  A Date is its time value: the day     *)
(* number since 1970-01-01 and the milliseconds since that day's UTC       *)
(* midnight, or NaN for an Invalid Date.                                   *)
(***************************************************************************)
InvalidDate == [t |-> "NaN"]

DateAt(day, ms) == [t |-> "time", day |-> day, ms |-> ms]

\* DATE_PATTERN = /^\d{4}-\d{2}-\d{2}$/, tested against the whole string
DATE_PATTERN(text) ==
  /\ Len(text) = 10
  /\ \A i \in {1, 2, 3, 4} : IsDigit(text[i])
  /\ text[5] = "-"
  /\ \A i \in {6, 7} : IsDigit(text[i])
  /\ text[8] = "-"
  /\ \A i \in {9, 10} : IsDigit(text[i])

MidnightSuffix == <<"T", "0", "0", ":", "0", "0", ":", "0", "0", "Z">>

\* new Date(text) for text YYYY-MM-DDT00:00:00Z: the values an engine may give.
\* A month outside 01..12 or a day outside 01..31 is an Invalid Date; a day of
\* 01..31 that the month does not have is an Invalid Date in an engine that
\* follows the Date Time String Format and the rolled-over day in V8.
newDate(text) ==
  LET y == DigitsValue(SubSeq(text, 1, 4))
      m == DigitsValue(SubSeq(text, 6, 7))
      d == DigitsValue(SubSeq(text, 9, 10))
  IN  IF ~(m \in 1..12 /\ d \in 1..31) THEN {InvalidDate}
      ELSE IF d <= DaysInMonth(y, m) THEN {DateAt(DaysFromCivil(y, m, d), 0)}
      ELSE {InvalidDate, DateAt(DaysFromCivil(y, m, 1) + d - 1, 0)}

\* date.toISOString().split('T')[0], years 0000 to 9999
isoDateOfDate(date) ==
  LET c == CivilFromDays(date.day)
  IN  Pad(c.y, 4) \o <<"-">> \o Pad(c.m, 2) \o <<"-">> \o Pad(c.d, 2)

Returned(value) == [kind |-> "returned", value |-> value]

Threw(template, args) == [kind |-> "threw", message |-> template, args |-> args]

\* parseDate without the comparison of the re-serialized date
parseDate_noRoundTrip(text, date) ==
  IF ~DATE_PATTERN(text)
  THEN Threw("Invalid date format: ${dateStr}. Expected YYYY-MM-DD", <<text>>)
  ELSE IF date.t = "NaN" THEN Threw("Invalid date: ${dateStr}", <<text>>)
  ELSE Returned(date)

\* parseDate(dateStr), date being the value new Date(dateStr + 'T00:00:00Z') gave
parseDate(text, date) ==
  IF ~DATE_PATTERN(text)
  THEN Threw("Invalid date format: ${dateStr}. Expected YYYY-MM-DD", <<text>>)
  ELSE IF date.t = "NaN" THEN Threw("Invalid date: ${dateStr}", <<text>>)
  ELSE IF isoDateOfDate(date) # text THEN Threw("Invalid date: ${dateStr}", <<text>>)
  ELSE Returned(date)

\* end <= start on two Dates: a comparison of time values, false with NaN
DateLte(a, b) ==
  /\ a.t = "time" /\ b.t = "time"
  /\ \/ a.day < b.day
     \/ a.day = b.day /\ a.ms <= b.ms

\* a range check that lets equal dates pass
validateDateRange_strict(start, end) ==
  IF DateLte(end, start) /\ end # start
  THEN Threw("End date must be after start date", << >>)
  ELSE Returned(Undefined)

validateDateRange(start, end) ==
  IF DateLte(end, start)
  THEN Threw("End date must be after start date", << >>)
  ELSE Returned(Undefined)

(* ------------------------------ the fetchers ---------------------------- *)
\* if (nextPage) params.page = nextPage
pageParam(cursor) == IF Truthy(cursor) THEN cursor ELSE Undefined

\* Math.floor(date.getTime() / 1000)
toUnixTimestamp(date) == date.day * SecondsPerDay + date.ms \div 1000

MillisSuffix == <<"T", "0", "0", ":", "0", "0", ":", "0", "0", ".", "0", "0", "0", "Z">>

\* toRfc3339(dateStr), date being the value new Date(dateStr + 'T00:00:00Z')
\* gave: toISOString throws a RangeError on an Invalid Date
toRfc3339(date) ==
  IF date.t = "NaN" THEN Threw("Invalid time value", << >>)
  ELSE Returned(isoDateOfDate(date) \o MillisSuffix)

\* the Date an engine may make of a string off the Date Time String Format by
\* its own fallback rules, when it makes one
ImplementationDate == DateAt(Day2024Jan01 \div SecondsPerDay, 0)

\* new Date(text + 'T00:00:00Z') for any text: off the format the result is
\* left to the engine, an Invalid Date or a Date of its choosing
dateOfText(text) ==
  IF DATE_PATTERN(text) THEN newDate(text \o MidnightSuffix)
  ELSE {InvalidDate, ImplementationDate}

\* fetchOpenAICosts before the loop: the results of the two
\* toUnixTimestamp(parseDate(...)), the first exception leaving the function
openAIBounds(cfg) ==
  { LET s == parseDate(cfg.startDate, d1)
        e == parseDate(cfg.endDate, d2)
    IN  IF s.kind = "threw" THEN s
        ELSE IF e.kind = "threw" THEN e
        ELSE Returned(<<toUnixTimestamp(s.value), toUnixTimestamp(e.value)>>)
    : d1 \in dateOfText(cfg.startDate), d2 \in dateOfText(cfg.endDate) }

\* fetchClaudeCosts before the loop: the results of the two toRfc3339(...)
claudeBounds(cfg) ==
  { LET s == toRfc3339(d1)
        e == toRfc3339(d2)
    IN  IF s.kind = "threw" THEN s
        ELSE IF e.kind = "threw" THEN e
        ELSE Returned(<<s.value, e.value>>)
    : d1 \in dateOfText(cfg.startDate), d2 \in dateOfText(cfg.endDate) }

\* a request whose range starts a day later on every page after the first
openAIRequest_movingStart(cfg, from, to, cursor) ==
  [url |-> "organization/costs",
   start_time |-> IF Truthy(cursor) THEN from + SecondsPerDay ELSE from,
   end_time |-> to,
   project_ids |-> <<cfg.projectId>>,
   group_by |-> <<"line_item">>,
   limit |-> 180,
   bucket_width |-> "1d",
   page |-> pageParam(cursor),
   headers |-> [Authorization |-> <<"Bearer ", cfg.apiKey>>,
                ContentType |-> "application/json",
                OpenAIOrganization |-> cfg.orgId]]

\* the params and headers of one axios.get of fetchOpenAICosts
openAIRequest(cfg, from, to, cursor) ==
  [url |-> "organization/costs",
   start_time |-> from, end_time |-> to,
   project_ids |-> <<cfg.projectId>>,
   group_by |-> <<"line_item">>,
   limit |-> 180,
   bucket_width |-> "1d",
   page |-> pageParam(cursor),
   headers |-> [Authorization |-> <<"Bearer ", cfg.apiKey>>,
                ContentType |-> "application/json",
                OpenAIOrganization |-> cfg.orgId]]

\* the params and headers of one axios.get of fetchClaudeCosts
claudeRequest(cfg, from, to, cursor) ==
  [url |-> "organizations/cost_report",
   starting_at |-> from, ending_at |-> to,
   bucket_width |-> "1d",
   limit |-> 31,
   group_by |-> <<"description">>,
   page |-> pageParam(cursor),
   headers |-> [xApiKey |-> cfg.apiKey, anthropicVersion |-> "2023-06-01"]]

Date20240101 == <<"2", "0", "2", "4", "-", "0", "1", "-", "0", "1">>
Date20240105 == <<"2", "0", "2", "4", "-", "0", "1", "-", "0", "5">>
Date20240201 == <<"2", "0", "2", "4", "-", "0", "2", "-", "0", "1">>
Date20240230 == <<"2", "0", "2", "4", "-", "0", "2", "-", "3", "0">>
DateOffPattern == <<"2", "0", "2", "4", "-", "1", "-", "1">>

\* configs whose dates are calendar days in ascending order
OpenAIConfigs ==
  { [startDate |-> Date20240101, endDate |-> Date20240105,
     apiKey |-> "sk-admin-1", orgId |-> "org-1", projectId |-> "proj_1"],
    [startDate |-> Date20240105, endDate |-> Date20240201,
     apiKey |-> "sk-admin-2", orgId |-> "org-2", projectId |-> "proj_2"] }
ClaudeConfigs ==
  { [startDate |-> Date20240101, endDate |-> Date20240105, apiKey |-> "sk-ant-admin-1"],
    [startDate |-> Date20240105, endDate |-> Date20240201, apiKey |-> "sk-ant-admin-2"] }

loopIdle ==
  /\ nextPage = Null /\ allBuckets = << >> /\ requests = << >>
  /\ responses = << >> /\ inflight = 0 /\ outcome = [kind |-> "pending"]

fetchIdle ==
  /\ pc = "idle" /\ loopIdle
  /\ config = None /\ startTime = None /\ endTime = None

normIdle == vendorResult = None /\ costResult = None

aggIdle == buckets = << >> /\ aggregated = None

dateIdle ==
  /\ dateStr = << >> /\ dateResult = None
  /\ rangeStart = None /\ rangeEnd = None /\ rangeResult = None

reportIdle == report = None /\ markdown = None /\ csv = None

hostIdle == runs = None /\ cli = None

\* a request that never carries the cursor
OpenAIIssueRequest_noPage ==
  /\ provider = "openai"
  /\ pc \in {"idle", "loop"}
  /\ Len(requests) < MaxRequests
  /\ requests' = Append(requests, openAIRequest(config, startTime, endTime, Null))
  /\ inflight' = inflight + 1
  /\ pc' = "await"
  /\ UNCHANGED <<hostVars, provider, config, startTime, endTime, nextPage, allBuckets, responses,
               outcome, normVars, aggVars, dateVars, reportVars>>

\* fetchOpenAICosts up to the first axios.get of the do body, and each later
\* iteration up to its axios.get
OpenAIIssueRequest ==
  /\ provider = "openai"
  /\ pc \in {"idle", "loop"}
  /\ Len(requests) < MaxRequests
  /\ requests' = Append(requests, openAIRequest(config, startTime, endTime, nextPage))
  /\ inflight' = inflight + 1
  /\ pc' = "await"
  /\ UNCHANGED <<hostVars, provider, config, startTime, endTime, nextPage, allBuckets, responses,
               outcome, normVars, aggVars, dateVars, reportVars>>

\* a loop that tests has_more instead of the cursor
OpenAIReceiveResponse_loopOnHasMore ==
  /\ provider = "openai"
  /\ pc = "await"
  /\ \E resp \in OpenAIResponses :
       LET cursor == IF resp.has_more THEN resp.next_page ELSE Null
           pushed == allBuckets \o resp.data
       IN  /\ responses' = Append(responses, resp)
           /\ inflight' = inflight - 1
           /\ allBuckets' = pushed
           /\ nextPage' = cursor
           /\ IF resp.has_more
              THEN pc' = "loop" /\ outcome' = outcome
              ELSE pc' = "done" /\ outcome' = [kind |-> "returned", value |-> pushed]
  /\ UNCHANGED <<hostVars, provider, config, startTime, endTime, requests, normVars, aggVars,
               dateVars, reportVars>>

\* the awaited axios.get resolves: push the page, move the cursor, test the loop
OpenAIReceiveResponse ==
  /\ provider = "openai"
  /\ pc = "await"
  /\ \E resp \in OpenAIResponses :
       LET cursor == IF resp.has_more THEN resp.next_page ELSE Null
           pushed == allBuckets \o resp.data
       IN  /\ responses' = Append(responses, resp)
           /\ inflight' = inflight - 1
           /\ allBuckets' = pushed
           /\ nextPage' = cursor
           /\ IF Truthy(cursor)
              THEN pc' = "loop" /\ outcome' = outcome
              ELSE pc' = "done" /\ outcome' = [kind |-> "returned", value |-> pushed]
  /\ UNCHANGED <<hostVars, provider, config, startTime, endTime, requests, normVars, aggVars,
               dateVars, reportVars>>

\* a failure that is swallowed: the buckets fetched so far are returned
OpenAIReceiveError_partial ==
  /\ provider = "openai"
  /\ pc = "await"
  /\ inflight' = inflight - 1
  /\ pc' = "done"
  /\ outcome' = [kind |-> "returned", value |-> allBuckets]
  /\ UNCHANGED <<hostVars, provider, config, startTime, endTime, nextPage, allBuckets, requests,
               responses, normVars, aggVars, dateVars, reportVars>>

\* the awaited axios.get rejects: the exception leaves fetchOpenAICosts
OpenAIReceiveError ==
  /\ provider = "openai"
  /\ pc = "await"
  /\ inflight' = inflight - 1
  /\ pc' = "failed"
  /\ outcome' = [kind |-> "rejected"]
  /\ UNCHANGED <<hostVars, provider, config, startTime, endTime, nextPage, allBuckets, requests,
               responses, normVars, aggVars, dateVars, reportVars>>

\* a request issued without awaiting the one before it
ClaudeIssueRequest_noAwait ==
  /\ provider = "claude"
  /\ pc \in {"idle", "loop", "await"}
  /\ Len(requests) < MaxRequests
  /\ requests' = Append(requests, claudeRequest(config, startTime, endTime, nextPage))
  /\ inflight' = inflight + 1
  /\ pc' = "await"
  /\ UNCHANGED <<hostVars, provider, config, startTime, endTime, nextPage, allBuckets, responses,
               outcome, normVars, aggVars, dateVars, reportVars>>

\* fetchClaudeCosts up to the axios.get of an iteration of the do body
ClaudeIssueRequest ==
  /\ provider = "claude"
  /\ pc \in {"idle", "loop"}
  /\ Len(requests) < MaxRequests
  /\ requests' = Append(requests, claudeRequest(config, startTime, endTime, nextPage))
  /\ inflight' = inflight + 1
  /\ pc' = "await"
  /\ UNCHANGED <<hostVars, provider, config, startTime, endTime, nextPage, allBuckets, responses,
               outcome, normVars, aggVars, dateVars, reportVars>>

\* the awaited axios.get resolves: normalize and push the page, move the cursor
ClaudeReceiveResponse ==
  /\ provider = "claude"
  /\ pc = "await"
  /\ \E resp \in ClaudeResponses :
       LET cursor == IF resp.has_more THEN resp.next_page ELSE Null
           pushed == allBuckets \o
                       [i \in 1..Len(resp.data) |-> claudeBucketToCostBucket(resp.data[i])]
       IN  /\ responses' = Append(responses, resp)
           /\ inflight' = inflight - 1
           /\ allBuckets' = pushed
           /\ nextPage' = cursor
           /\ IF Truthy(cursor)
              THEN pc' = "loop" /\ outcome' = outcome
              ELSE pc' = "done" /\ outcome' = [kind |-> "returned", value |-> pushed]
  /\ UNCHANGED <<hostVars, provider, config, startTime, endTime, requests, normVars, aggVars,
               dateVars, reportVars>>

\* the awaited axios.get rejects: the exception leaves fetchClaudeCosts
ClaudeReceiveError ==
  /\ provider = "claude"
  /\ pc = "await"
  /\ inflight' = inflight - 1
  /\ pc' = "failed"
  /\ outcome' = [kind |-> "rejected"]
  /\ UNCHANGED <<hostVars, provider, config, startTime, endTime, nextPage, allBuckets, requests,
               responses, normVars, aggVars, dateVars, reportVars>>

\* a fetcher at the top of its do body, called with a config whose startDate and
\* endDate are calendar days: the conversions before the loop (parseDate and
\* toUnixTimestamp, toRfc3339) have given startTime and endTime.  SpecAnyDates
\* starts before the conversions, with any dates.
Init ==
  /\ hostIdle
  /\ provider \in {"openai", "claude"}
  /\ config \in (IF provider = "openai" THEN OpenAIConfigs ELSE ClaudeConfigs)
  /\ \E bounds \in (IF provider = "openai" THEN openAIBounds(config)
                                               ELSE claudeBounds(config)) :
       /\ bounds.kind = "returned"
       /\ startTime = bounds.value[1] /\ endTime = bounds.value[2]
  /\ pc = "idle" /\ loopIdle
  /\ vendorResult = None /\ costResult = None
  /\ buckets = << >> /\ aggregated = None
  /\ dateIdle /\ reportIdle

Next ==
  \/ OpenAIIssueRequest
  \/ OpenAIReceiveResponse
  \/ OpenAIReceiveError
  \/ ClaudeIssueRequest
  \/ ClaudeReceiveResponse
  \/ ClaudeReceiveError

Spec == Init /\ [][Next]_vars

(* ------------------------- properties of the fetch ---------------------- *)
\* the canonical buckets of one response, as the fetcher of the provider pushes them
PageBuckets(resp) ==
  IF provider = "openai" THEN resp.data
  ELSE [i \in 1..Len(resp.data) |-> claudeBucketToCostBucket(resp.data[i])]

PagesConcat(resps) == Concat([k \in 1..Len(resps) |-> PageBuckets(resps[k])])

\* response k asks for a further page with a usable cursor
HasNext(k) == responses[k].has_more /\ Truthy(responses[k].next_page)

\* the fetcher went on after response k: it issued request k+1 or stands at the
\* top of the do body about to issue it
Continued(k) == k < Len(requests) \/ (k = Len(responses) /\ pc = "loop")

AllResults(bs) == Concat([i \in 1..Len(bs) |-> bs[i].results])

\* C1: when pages 1..n-1 carry has_more=true with a non-empty next_page and page n
\* has has_more=false, the fetcher (either one) issues exactly n requests, the
\* first without a page parameter, request k with the next_page of response k-1,
\* and returns the buckets of pages 1..n concatenated in page order; it returns
\* nothing before page n.
C1_Pagination ==
  LET n == Len(responses)
  IN  /\ (n >= 1 /\ \A k \in 1..n : HasNext(k))
          => pc # "done" /\ outcome.kind # "returned"
      /\ (n >= 1 /\ (\A k \in 1..(n - 1) : HasNext(k)) /\ ~responses[n].has_more)
          => /\ pc = "done"
             /\ Len(requests) = n
             /\ requests[1].page = Undefined
             /\ \A k \in 2..n : requests[k].page = responses[k - 1].next_page
             /\ outcome = [kind |-> "returned", value |-> PagesConcat(responses)]

C1_Witness ==
  /\ pc = "done" /\ Len(responses) = 3
  /\ \A k \in 1..2 : HasNext(k) /\ responses[k].data # << >>
  /\ responses[1].data # responses[2].data
  /\ ~responses[3].has_more

\* C2 as stated: the fetcher goes on after a response exactly when the response
\* has has_more=true, whatever its next_page.
C2_StopsIffNoMore ==
  \A k \in 1..Len(responses) : Continued(k) <=> responses[k].has_more

\* C2 amended: the fetcher goes on after a response exactly when the response has
\* has_more=true and a non-empty next_page; it stops (and returns) after a response
\* with has_more=false and also after one with has_more=true whose next_page is null
\* or empty.
C2_StopsIffNoCursor ==
  /\ \A k \in 1..Len(responses) : Continued(k) <=> HasNext(k)
  /\ \A k \in 1..Len(responses) : ~HasNext(k) => k = Len(requests) /\ pc = "done"

C2_Witness ==
  /\ pc = "done" /\ Len(responses) = 2 /\ Len(requests) = 2
  /\ responses[2].has_more /\ ~Truthy(responses[2].next_page)

\* a request was rejected: nothing is in flight and one request has no response
RequestFailed == inflight = 0 /\ Len(requests) > Len(responses)

\* C3: when a page request fails the fetch is over: the failed page was requested
\* once, no further request is issued, the caller gets the rejection and no
\* buckets of the pages fetched before.
C3_FailurePropagates ==
  /\ [](RequestFailed =>
          /\ pc = "failed"
          /\ outcome = [kind |-> "rejected"]
          /\ Len(requests) = Len(responses) + 1)
  /\ [][RequestFailed => UNCHANGED <<requests, responses, outcome>>]_vars

C3_Witness ==
  /\ RequestFailed /\ Len(responses) = 2 /\ allBuckets # << >>
  /\ outcome.kind = "rejected"

\* C4: at most one page request is in flight; request k+1 exists only when
\* response k has been received and its buckets are in allBuckets.
C4_OneInFlight ==
  /\ inflight \in {0, 1}
  /\ Len(requests) <= Len(responses) + 1
  /\ inflight = 1 => pc = "await"
  /\ allBuckets = PagesConcat(responses)

C4_Witness == inflight = 1 /\ Len(requests) = 3 /\ Len(allBuckets) = 2

NonEmptyLineItem(r) == r.line_item.t = "string" /\ r.line_item.s # << >>

\* C7 as stated: every result returned by either fetcher has a non-empty line item.
C7_NonEmptyLineItem ==
  outcome.kind = "returned" =>
    \A i \in DOMAIN AllResults(outcome.value) :
      NonEmptyLineItem(AllResults(outcome.value)[i])

\* C7 amended: every result returned by fetchClaudeCosts has a non-empty line item;
\* fetchOpenAICosts returns the vendor's results as received, a null or empty
\* line_item included.
C7_ClaudeNonEmptyLineItem ==
  outcome.kind = "returned" =>
    /\ provider = "claude" =>
         \A i \in DOMAIN AllResults(outcome.value) :
           NonEmptyLineItem(AllResults(outcome.value)[i])
    /\ provider = "openai" =>
         outcome.value = Concat([k \in 1..Len(responses) |-> responses[k].data])

C7_Witness ==
  /\ provider = "claude" /\ outcome.kind = "returned"
  /\ \E k \in 1..Len(responses) : \E i \in 1..Len(responses[k].data) :
       \E j \in 1..Len(responses[k].data[i].results) :
         responses[k].data[i].results[j].description = Str(<< >>)

(* ------------------- Claude normalization on its own -------------------- *)
\* amounts in cents, in units of 1/Scale, with at most two decimals
CentAmounts == {0, 100, 5000, 500000, 1000000, 1234500, 0 - 70000}

\* the vendor results handed to the normalization
NormInputs ==
  [amount : {NumberToString(Num(v)) : v \in CentAmounts} \cup {<<"a", "b", "c">>},
   currency : {"USD", "EUR"},
   description : {Null, Str(<< >>), Str(<<"d">>)},
   model : {Null, Str(<< >>), Str(<<"m">>)},
   cost_type : {Null, Str(<< >>), Str(<<"t">>)}]

InitNorm ==
  /\ hostIdle
  /\ provider = "claude"
  /\ fetchIdle
  /\ vendorResult \in NormInputs /\ costResult = None
  /\ buckets = << >> /\ aggregated = None
  /\ dateIdle /\ reportIdle

\* one call of the results.map callback of claudeBucketToCostBucket
Normalize ==
  /\ vendorResult # None /\ costResult = None
  /\ costResult' = claudeResultToCostResult(vendorResult)
  /\ UNCHANGED <<hostVars, fetchVars, vendorResult, aggVars, dateVars, reportVars>>

NextNorm == Normalize

SpecNorm == InitNorm /\ [][NextNorm]_vars

Present(v) == v.t = "string" /\ v.s # << >>

\* model and cost_type joined by a space, a null or empty one skipped
JoinedLabel(r) ==
  CASE Present(r.model) /\ Present(r.cost_type) -> r.model.s \o <<" ">> \o r.cost_type.s
    [] Present(r.model) /\ ~Present(r.cost_type) -> r.model.s
    [] ~Present(r.model) /\ Present(r.cost_type) -> r.cost_type.s
    [] OTHER -> << >>

\* C5 as stated: the line item is the description whenever it is non-null, else
\* the joined model and cost_type, else "unknown".
C5_DescriptionWins ==
  costResult # None =>
    costResult.line_item =
      Str(IF vendorResult.description.t # "null" THEN vendorResult.description.s
          ELSE IF JoinedLabel(vendorResult) # << >> THEN JoinedLabel(vendorResult)
          ELSE Unknown)

\* C5 amended: the line item is the description when it is non-null and non-empty;
\* "unknown" when the description is the empty string, whatever model and
\* cost_type are; the joined model and cost_type when the description is null and
\* the join is non-empty; "unknown" when the description is null and the join empty.
C5_LineItemPriority ==
  costResult # None =>
    costResult.line_item =
      Str(CASE Present(vendorResult.description) -> vendorResult.description.s
            [] vendorResult.description = Str(<< >>) -> Unknown
            [] vendorResult.description = Null /\ JoinedLabel(vendorResult) # << >> ->
                 JoinedLabel(vendorResult)
            [] OTHER -> Unknown)

C5_Witness ==
  /\ costResult # None
  /\ vendorResult.description = Str(<< >>) /\ Present(vendorResult.model)
  /\ costResult.line_item = Str(Unknown)

\* C6: an amount that is the decimal text of v cents becomes the number v / 100,
\* "123.45" becomes 1.2345, and the currency is passed through.
C6_CentsToDollars ==
  costResult # None =>
    /\ costResult.amount.currency = vendorResult.currency
    /\ \A v \in CentAmounts :
         vendorResult.amount = NumberToString(Num(v)) =>
           /\ costResult.amount.value.t = "number"
           /\ costResult.amount.value.n * 100 = v
    /\ vendorResult.amount = <<"1", "2", "3", ".", "4", "5">> =>
         NumberToString(costResult.amount.value) = <<"1", ".", "2", "3", "4", "5">>

C6_Witness ==
  /\ costResult # None
  /\ vendorResult.amount = <<"1", "2", "3", ".", "4", "5">>
  /\ vendorResult.currency = "EUR"

(* ------------------------------ aggregateCosts -------------------------- *)
\* costsByLineItem is a Map: a sequence of [key, value] entries in insertion order
mapHas(map, key) == \E i \in 1..Len(map) : map[i].key = key

\* Map.get: undefined for an absent key
mapGet(map, key) ==
  IF mapHas(map, key)
  THEN map[CHOOSE i \in 1..Len(map) : map[i].key = key].value
  ELSE Undefined

\* Map.set: an existing key keeps its place
mapSet(map, key, value) ==
  IF mapHas(map, key)
  THEN [i \in 1..Len(map) |-> IF map[i].key = key THEN [key |-> key, value |-> value]
                              ELSE map[i]]
  ELSE Append(map, [key |-> key, value |-> value])

\* a coercion that keeps only the whole part of a string amount
coerceCost_wholePart(value) ==
  IF value.t = "string"
  THEN LET v == parseFloat(value.s)
       IN  IF v.t = "NaN" THEN NaN
           ELSE Num((IF v.n < 0 THEN 0 - ((0 - v.n) \div Scale) ELSE v.n \div Scale) * Scale)
  ELSE value

\* typeof value === 'string' ? parseFloat(value) : value
coerceCost(value) == IF value.t = "string" THEN parseFloat(value.s) ELSE value

\* a loop body that replaces only an absent line item, not an empty one
aggregateResult_nullish(acc, date, result) ==
  LET cost == coerceCost(result.amount.value)
      lineItem == Coalesce(result.line_item, Str(Unknown)).s
      currentLineItemCost == OrElse(mapGet(acc.costsByLineItem, lineItem), Num(0))
  IN  [totalCost |-> Plus(acc.totalCost, cost),
       costsByLineItem |-> mapSet(acc.costsByLineItem, lineItem,
                                  Plus(currentLineItemCost, cost)),
       dailyCosts |-> Append(acc.dailyCosts,
                             [date |-> date, lineItem |-> lineItem, cost |-> cost])]

\* the body of the loop over bucket.results
aggregateResult(acc, date, result) ==
  LET cost == coerceCost(result.amount.value)
      lineItem == OrElse(result.line_item, Str(Unknown)).s
      currentLineItemCost == OrElse(mapGet(acc.costsByLineItem, lineItem), Num(0))
  IN  [totalCost |-> Plus(acc.totalCost, cost),
       costsByLineItem |-> mapSet(acc.costsByLineItem, lineItem,
                                  Plus(currentLineItemCost, cost)),
       dailyCosts |-> Append(acc.dailyCosts,
                             [date |-> date, lineItem |-> lineItem, cost |-> cost])]

RECURSIVE aggregateResults(_, _, _)
aggregateResults(acc, date, results) ==
  IF results = << >> THEN acc
  ELSE aggregateResults(aggregateResult(acc, date, Head(results)), date, Tail(results))

RECURSIVE aggregateBuckets(_, _)
\* the loop over buckets
aggregateBuckets(acc, bs) ==
  IF bs = << >> THEN acc
  ELSE aggregateBuckets(
         aggregateResults(acc, isoDateOfSeconds(Head(bs).start_time), Head(bs).results),
         Tail(bs))

\* the number of distinct calendar days among the buckets
billingDaysOf_distinctDays(bs) ==
  Cardinality({isoDateOfSeconds(bs[i].start_time) : i \in 1..Len(bs)})

\* const billingDays = buckets.length
billingDaysOf(bs) == Len(bs)

aggregateCosts(bs, startDate, endDate, projectId) ==
  LET acc == aggregateBuckets(
               [totalCost |-> Num(0), costsByLineItem |-> << >>, dailyCosts |-> << >>], bs)
      billingDays == billingDaysOf(bs)
  IN  [totalCost |-> acc.totalCost,
       startDate |-> startDate,
       endDate |-> endDate,
       projectId |-> projectId,
       dailyCosts |-> acc.dailyCosts,
       costsByLineItem |-> acc.costsByLineItem,
       billingDays |-> billingDays,
       averageDailyCost |-> IF billingDays > 0
                            THEN DivideByCount(acc.totalCost, billingDays)
                            ELSE Num(0)]

(* --------------------------- aggregation on its own --------------------- *)
\* amounts in dollars, in units of 1/Scale
DollarAmounts == {15000, 20000, 5000, 22500, 0 - 2500}

AggStartTimes ==
  { Day2024Jan01,
    Day2024Jan01 + SecondsPerDay - 1,
    DaysFromCivil(2024, 2, 29) * SecondsPerDay + 12 * 3600,
    DaysFromCivil(2023, 3, 1) * SecondsPerDay,
    0 - 1 }

AggResultLists ==
  { << >>,
    << OpenAIResult(Str(<<"a">>), Num(15000)), OpenAIResult(Str(<<"b">>), Str(<<"0", ".", "5">>)) >>,
    << OpenAIResult(Null, Num(20000)) >>,
    << OpenAIResult(Str(<< >>), Str(<<"2", ".", "2", "5">>)), OpenAIResult(Str(<<"a">>), Num(15000)) >>,
    << OpenAIResult(Str(<<"a">>), Str(<<"a", "b", "c">>)), OpenAIResult(Str(<<"a">>), Num(15000)) >>,
    << OpenAIResult(Str(<<"b">>), Num(0 - 2500)), OpenAIResult(Str(<<"b">>), Str(<<"0", ".", "5">>)) >> }

AggBuckets ==
  { [object |-> "bucket", start_time |-> s, end_time |-> s + SecondsPerDay, results |-> rs] :
      s \in AggStartTimes, rs \in AggResultLists }

RECURSIVE SeqsUpTo(_, _)
\* the sequences over S no longer than n
SeqsUpTo(S, n) ==
  IF n = 0 THEN {<< >>}
  ELSE LET shorter == SeqsUpTo(S, n - 1)
       IN  shorter \cup {Append(q, x) : q \in shorter, x \in S}

ReportStart == <<"2","0","2","4","-","0","1","-","0","1">>
ReportEnd == <<"2","0","2","4","-","0","1","-","3","1">>
ReportProject == <<"p">>

InitAgg ==
  /\ hostIdle
  /\ provider = "openai"
  /\ fetchIdle
  /\ vendorResult = None /\ costResult = None
  /\ buckets \in SeqsUpTo(AggBuckets, MaxBuckets)
  /\ aggregated = None
  /\ dateIdle /\ reportIdle

\* one call of aggregateCosts
Aggregate ==
  /\ aggregated = None
  /\ aggregated' = aggregateCosts(buckets, ReportStart, ReportEnd, ReportProject)
  /\ UNCHANGED <<hostVars, fetchVars, normVars, buckets, dateVars, reportVars>>

NextAgg == Aggregate

SpecAgg == InitAgg /\ [][NextAgg]_vars

(* ----------------------- properties of the aggregation ------------------ *)
\* the number a decimal text denotes: the v whose decimal text it is
Denotes(chars) ==
  IF \E v \in DollarAmounts : NumberToString(Num(v)) = chars
  THEN Num(CHOOSE v \in DollarAmounts : NumberToString(Num(v)) = chars)
  ELSE NaN

NumericAmount(result) ==
  IF result.amount.value.t = "string" THEN Denotes(result.amount.value.s)
  ELSE result.amount.value

RECURSIVE SumNumbers(_)
\* the sum of a sequence of numbers, from the right
SumNumbers(ns) ==
  IF ns = << >> THEN Num(0)
  ELSE Plus(ns[Len(ns)], SumNumbers(SubSeq(ns, 1, Len(ns) - 1)))

\* every result of every bucket, with the start_time of its bucket
FlatResults(bs) ==
  Concat([i \in 1..Len(bs) |->
            [j \in 1..Len(bs[i].results) |->
               [start_time |-> bs[i].start_time, result |-> bs[i].results[j]]]])

\* an amount as text: a number becomes its decimal text
ValueAsString(v) == IF v.t = "number" THEN Str(NumberToString(v)) ELSE v

\* an amount as number: a decimal text becomes the number it denotes
ValueAsNumber(v) ==
  IF v.t = "string" /\ Denotes(v.s).t = "number" THEN Denotes(v.s) ELSE v

\* every numeric amount given as its decimal text
AsStrings(bs) ==
  [i \in 1..Len(bs) |->
     [bs[i] EXCEPT !.results =
        [j \in 1..Len(bs[i].results) |->
           [bs[i].results[j] EXCEPT
              !.amount.value = ValueAsString(bs[i].results[j].amount.value)]]]]

\* every amount given as the number its text denotes
AsNumbers(bs) ==
  [i \in 1..Len(bs) |->
     [bs[i] EXCEPT !.results =
        [j \in 1..Len(bs[i].results) |->
           [bs[i].results[j] EXCEPT
              !.amount.value = ValueAsNumber(bs[i].results[j].amount.value)]]]]

TotalOf(bs) == aggregateCosts(bs, ReportStart, ReportEnd, ReportProject).totalCost

\* C8: totalCost is the sum of the numeric amounts of all results of all buckets,
\* and it is the same with every amount given as a number or as the decimal text
\* of that number.
C8_TotalIsSum ==
  aggregated # None =>
    /\ aggregated.totalCost =
         SumNumbers([i \in 1..Len(FlatResults(buckets)) |->
                       NumericAmount(FlatResults(buckets)[i].result)])
    /\ TotalOf(AsStrings(buckets)) = aggregated.totalCost
    /\ TotalOf(AsNumbers(buckets)) = aggregated.totalCost

C8_Witness ==
  /\ aggregated # None /\ Len(buckets) = 2
  /\ aggregated.totalCost = Num(40000)
  /\ \E i \in 1..Len(FlatResults(buckets)) :
       FlatResults(buckets)[i].result.amount.value = Str(<<"0", ".", "5">>)
  /\ \E i \in 1..Len(FlatResults(buckets)) :
       FlatResults(buckets)[i].result.amount.value.t = "number"

\* C9: totalCost equals the sum of the values of costsByLineItem and the sum of
\* the costs of dailyCosts.
C9_TotalsAgree ==
  aggregated # None =>
    /\ aggregated.totalCost =
         SumNumbers([i \in 1..Len(aggregated.costsByLineItem) |->
                       aggregated.costsByLineItem[i].value])
    /\ aggregated.totalCost =
         SumNumbers([i \in 1..Len(aggregated.dailyCosts) |-> aggregated.dailyCosts[i].cost])

\* every amount of the input is a number or the decimal text of one
AllCoercible(bs) ==
  \A i \in 1..Len(FlatResults(bs)) : NumericAmount(FlatResults(bs)[i].result).t = "number"

\* the agreement of the three totals on inputs whose amounts are all numeric
C9_TotalsAgreeWhenNumeric == AllCoercible(buckets) => C9_TotalsAgree

\* the text is YYYY-MM-DD
IsDateText(text) ==
  /\ Len(text) = 10
  /\ \A i \in {1, 2, 3, 4, 6, 7, 9, 10} : IsDigit(text[i])
  /\ text[5] = "-" /\ text[8] = "-"

\* the text names a calendar day and the instant lies in that day of UTC
IsUtcDayOf(text, seconds) ==
  /\ IsDateText(text)
  /\ LET y == DigitsValue(SubSeq(text, 1, 4))
         m == DigitsValue(SubSeq(text, 6, 7))
         d == DigitsValue(SubSeq(text, 9, 10))
         midnight == DaysFromCivil(y, m, d) * SecondsPerDay
     IN  /\ m \in 1..12 /\ d \in 1..DaysInMonth(y, m)
         /\ midnight <= seconds /\ seconds < midnight + SecondsPerDay

\* C10: dailyCosts has one entry per result of the input, in bucket-then-result
\* order, each dated with the UTC calendar day of the start_time of its bucket.
C10_DailyCosts ==
  aggregated # None =>
    LET flat == FlatResults(buckets)
    IN  /\ Len(aggregated.dailyCosts) = Len(flat)
        /\ \A i \in 1..Len(flat) :
             /\ IsUtcDayOf(aggregated.dailyCosts[i].date, flat[i].start_time)
             /\ aggregated.dailyCosts[i].cost = NumericAmount(flat[i].result)
             /\ aggregated.dailyCosts[i].lineItem =
                  (IF Present(flat[i].result.line_item) THEN flat[i].result.line_item.s
                   ELSE Unknown)

C10_Witness ==
  /\ aggregated # None /\ Len(buckets) = 2 /\ Len(aggregated.dailyCosts) = 3
  /\ buckets[1].start_time = Day2024Jan01 + SecondsPerDay - 1
  /\ buckets[2].start_time = 0 - 1
  /\ aggregated.dailyCosts[1].date = ReportStart
  /\ aggregated.dailyCosts[3].date = <<"1","9","6","9","-","1","2","-","3","1">>

Orderings(n) == {p \in [1..n -> 1..n] : \A i, j \in 1..n : p[i] = p[j] => i = j}

Permuted(bs, p) == [i \in 1..Len(bs) |-> bs[p[i]]]

Aggregated(bs) == aggregateCosts(bs, ReportStart, ReportEnd, ReportProject)

\* the entries of a Map, their order forgotten
MapContents(map) == {map[i] : i \in 1..Len(map)}

\* C11: every permutation of the bucket list gives the same costsByLineItem
\* contents and the same totalCost, and dailyCosts in the order of the permuted
\* input.
C11_PermutationInvariant ==
  aggregated # None =>
    \A p \in Orderings(Len(buckets)) :
      LET A == Aggregated(Permuted(buckets, p))
      IN  /\ MapContents(A.costsByLineItem) = MapContents(aggregated.costsByLineItem)
          /\ A.totalCost = aggregated.totalCost
          /\ A.dailyCosts =
               Concat([i \in 1..Len(buckets) |-> Aggregated(<<buckets[p[i]]>>).dailyCosts])

\* the same on inputs whose amounts are all numeric
C11_PermutationInvariantWhenNumeric == AllCoercible(buckets) => C11_PermutationInvariant

\* C12: billingDays is the number of buckets, empty buckets and buckets of one
\* calendar day each counted; averageDailyCost is totalCost / billingDays (here the
\* quotient of the fixed-point division), and 0 without buckets.
C12_BillingDays ==
  aggregated # None =>
    /\ aggregated.billingDays = Len(buckets)
    /\ Len(buckets) = 0 => aggregated.averageDailyCost = Num(0)
    /\ Len(buckets) > 0 =>
         IF aggregated.totalCost.t = "NaN" THEN aggregated.averageDailyCost = NaN
         ELSE /\ aggregated.averageDailyCost.t = "number"
              /\ aggregated.averageDailyCost.n * Len(buckets) <= aggregated.totalCost.n
              /\ aggregated.totalCost.n < (aggregated.averageDailyCost.n + 1) * Len(buckets)

C12_Witness ==
  /\ aggregated # None /\ Len(buckets) = 2
  /\ buckets[1].start_time = Day2024Jan01 /\ buckets[1].results # << >>
  /\ buckets[2].start_time = Day2024Jan01 + SecondsPerDay - 1 /\ buckets[2].results = << >>
  /\ aggregated.billingDays = 2
  /\ aggregated.averageDailyCost = Num(10000)

\* an amount of the input is a string that denotes no number
HasUnparseable(bs) ==
  \E i \in 1..Len(FlatResults(bs)) :
    /\ FlatResults(bs)[i].result.amount.value.t = "string"
    /\ Denotes(FlatResults(bs)[i].result.amount.value.s) = NaN

\* C13: with an amount that cannot be coerced to a number aggregateCosts returns
\* no AggregatedCosts value.
C13_UnparseableFails == HasUnparseable(buckets) => aggregated = None

DateYears == {<<"2", "0", "2", "4">>, <<"2", "0", "2", "3">>, <<"1", "9", "0", "0">>,
              <<"2", "0", "0", "0">>, <<"0", "0", "0", "0">>, <<"9", "9", "9", "9">>}
DateMonths == {<<"0", "0">>, <<"0", "1">>, <<"0", "2">>, <<"0", "4">>, <<"1", "2">>,
               <<"1", "3">>}
DateDays == {<<"0", "0">>, <<"0", "1">>, <<"2", "8">>, <<"2", "9">>, <<"3", "0">>,
             <<"3", "1">>, <<"3", "2">>}

\* strings DATE_PATTERN rejects: wrong separators, widths, trailing text
MalformedDates ==
  { << >>,
    <<"2", "0", "2", "4", "/", "0", "1", "/", "0", "1">>,
    <<"0", "1", "-", "0", "1", "-", "2", "0", "2", "4">>,
    <<"2", "0", "2", "4", "-", "1", "-", "1">>,
    <<"2", "0", "2", "4", "-", "0", "1", "-", "0", "1", "\n">>,
    <<"2", "0", "2", "4", "-", "0", "1", "-", "0", "1", "T", "0", "0", ":", "0", "0">>,
    <<" ", "2", "0", "2", "4", "-", "0", "1", "-", "0", "1">>,
    <<"2", "0", "2", "4", "-", "0", "1", "-", "1", "x">>,
    <<"i", "n", "v", "a", "l", "i", "d">> }

DateTexts ==
  {y \o <<"-">> \o m \o <<"-">> \o d : y \in DateYears, m \in DateMonths, d \in DateDays}
    \cup MalformedDates

\* the Dates validateDateRange is called with: days of January 2024, one of
\* them past midnight, and an Invalid Date
RangeDates ==
  {DateAt(Day2024Jan01 \div SecondsPerDay + k, 0) : k \in {0, 1, 30}}
    \cup {DateAt(Day2024Jan01 \div SecondsPerDay, 1), InvalidDate}

InitDate ==
  /\ hostIdle
  /\ provider = "openai"
  /\ fetchIdle /\ normIdle /\ aggIdle /\ reportIdle
  /\ dateStr \in DateTexts /\ dateResult = None
  /\ rangeStart \in RangeDates /\ rangeEnd \in RangeDates /\ rangeResult = None

\* one call of parseDate
ParseDate ==
  /\ dateResult = None
  /\ \E date \in (IF DATE_PATTERN(dateStr) THEN newDate(dateStr \o MidnightSuffix)
                  ELSE {InvalidDate}) :
       dateResult' = parseDate(dateStr, date)
  /\ UNCHANGED <<hostVars, fetchVars, normVars, aggVars, reportVars,
                 dateStr, rangeStart, rangeEnd, rangeResult>>

\* one call of validateDateRange
ValidateDateRange ==
  /\ rangeResult = None
  /\ rangeResult' = validateDateRange(rangeStart, rangeEnd)
  /\ UNCHANGED <<hostVars, fetchVars, normVars, aggVars, reportVars,
                 dateStr, dateResult, rangeStart, rangeEnd>>

NextDate == ParseDate \/ ValidateDateRange

SpecDate == InitDate /\ [][NextDate]_vars

\* the text is YYYY-MM-DD and names a day of the Gregorian calendar
IsRealDate(text) ==
  /\ IsDateText(text)
  /\ DigitsValue(SubSeq(text, 6, 7)) \in 1..12
  /\ DigitsValue(SubSeq(text, 9, 10)) \in
       1..DaysInMonth(DigitsValue(SubSeq(text, 1, 4)), DigitsValue(SubSeq(text, 6, 7)))

DayNumberOf(text) ==
  DaysFromCivil(DigitsValue(SubSeq(text, 1, 4)), DigitsValue(SubSeq(text, 6, 7)),
                DigitsValue(SubSeq(text, 9, 10)))

\* C14: parseDate returns exactly on the YYYY-MM-DD strings that name a real
\* calendar day; the value is that day's UTC midnight and serializes back to the
\* input; a string off the pattern fails with the invalid-format error and a
\* pattern-matching string that names no real day fails with the invalid-date
\* error, whatever the Date constructor made of it.
C14_ParseDate ==
  dateResult # None =>
    /\ dateResult.kind = "returned" <=> IsRealDate(dateStr)
    /\ dateResult.kind = "returned" =>
         /\ dateResult.value = DateAt(DayNumberOf(dateStr), 0)
         /\ isoDateOfDate(dateResult.value) = dateStr
    /\ ~IsDateText(dateStr) =>
         dateResult = Threw("Invalid date format: ${dateStr}. Expected YYYY-MM-DD",
                            <<dateStr>>)
    /\ IsDateText(dateStr) /\ ~IsRealDate(dateStr) =>
         dateResult = Threw("Invalid date: ${dateStr}", <<dateStr>>)

Feb30 == <<"2", "0", "2", "4", "-", "0", "2", "-", "3", "0">>

\* 2024-02-30 is refused with the invalid-date error
C14_Witness ==
  /\ dateStr = Feb30
  /\ DateAt(DayNumberOf(<<"2", "0", "2", "4", "-", "0", "3", "-", "0", "1">>), 0)
       \in newDate(Feb30 \o MidnightSuffix)
  /\ dateResult = Threw("Invalid date: ${dateStr}", <<Feb30>>)

\* a leap day is accepted
C14_LeapDayAccepted ==
  /\ dateStr = <<"2", "0", "2", "4", "-", "0", "2", "-", "2", "9">>
  /\ dateResult.kind = "returned"

\* end is at or before start, as instants
AtOrBefore(end, start) ==
  /\ end.t = "time" /\ start.t = "time"
  /\ (end.day < start.day \/ (end.day = start.day /\ end.ms <= start.ms))

\* C15: validateDateRange fails exactly when end <= start: equal dates are
\* refused, an end after start is accepted.
C15_ValidateDateRange ==
  rangeResult # None =>
    /\ rangeResult.kind = "threw" <=> AtOrBefore(rangeEnd, rangeStart)
    /\ rangeResult.kind = "threw" =>
         rangeResult = Threw("End date must be after start date", << >>)
    /\ rangeEnd = rangeStart /\ rangeStart.t = "time" => rangeResult.kind = "threw"

C15_Witness ==
  /\ rangeStart = DateAt(Day2024Jan01 \div SecondsPerDay, 0)
  /\ rangeEnd = rangeStart
  /\ rangeResult = Threw("End date must be after start date", << >>)

(***************************************************************************)
(* Report generators.  A report text is a sequence of characters.          *)
(***************************************************************************)
Lowers ==
  <<"a", "b", "c", "d", "e", "f", "g", "h", "i", "j", "k", "l", "m", "n", "o", "p",
    "q", "r", "s", "t", "u", "v", "w", "x", "y", "z">>
Uppers ==
  <<"A", "B", "C", "D", "E", "F", "G", "H", "I", "J", "K", "L", "M", "N", "O", "P",
    "Q", "R", "S", "T", "U", "V", "W", "X", "Y", "Z">>

\* the characters in the order of the root collation, letters by their lowercase:
\* white space, punctuation, symbols, digits, letters
CollationOrder ==
  <<"\n", " ", "_", "-", ",", ":", ".", "\"", "|"
  >> \o Digits \o Lowers

IsUpper(c) == \E i \in 1..Len(Uppers) : Uppers[i] = c

ToLower(c) == IF IsUpper(c) THEN Lowers[CHOOSE i \in 1..Len(Uppers) : Uppers[i] = c] ELSE c

\* primary weight: the letter or sign, case put aside
PrimaryWeight(c) == CHOOSE i \in 1..Len(CollationOrder) : CollationOrder[i] = ToLower(c)

\* tertiary weight: lowercase before uppercase
TertiaryWeight(c) == IF IsUpper(c) THEN 1 ELSE 0

RECURSIVE CompareWeights(_, _)
\* lexicographic comparison of two sequences of weights: -1, 0 or 1
CompareWeights(u, v) ==
  IF u = << >> THEN (IF v = << >> THEN 0 ELSE 0 - 1)
  ELSE IF v = << >> THEN 1
  ELSE IF Head(u) < Head(v) THEN 0 - 1
  ELSE IF Head(u) > Head(v) THEN 1
  ELSE CompareWeights(Tail(u), Tail(v))

\* a.localeCompare(b): the strings compared by primary weights, and by case where
\* these are equal
localeCompare(a, b) ==
  LET primary == CompareWeights([i \in 1..Len(a) |-> PrimaryWeight(a[i])],
                                [i \in 1..Len(b) |-> PrimaryWeight(b[i])])
  IN  IF primary # 0 THEN primary
      ELSE CompareWeights([i \in 1..Len(a) |-> TertiaryWeight(a[i])],
                          [i \in 1..Len(b) |-> TertiaryWeight(b[i])])

\* a comparator that looks at the date alone
compareDailyCosts_dateOnly(a, b) == localeCompare(a.date, b.date)

\* the comparator of generateCSVReport: date, then line item
compareDailyCosts(a, b) ==
  LET dateCompare == localeCompare(a.date, b.date)
  IN  IF dateCompare # 0 THEN dateCompare ELSE localeCompare(a.lineItem, b.lineItem)

RECURSIVE insertDailyCost(_, _)
\* x put behind the last element of the sorted list that does not come after it
insertDailyCost(sorted, x) ==
  IF sorted = << >> THEN <<x>>
  ELSE IF compareDailyCosts(sorted[Len(sorted)], x) <= 0 THEN Append(sorted, x)
  ELSE Append(insertDailyCost(SubSeq(sorted, 1, Len(sorted) - 1), x), sorted[Len(sorted)])

RECURSIVE sortDailyCosts(_)
\* [...dailyCosts].sort(compare): a stable sort of a copy
sortDailyCosts(list) ==
  IF list = << >> THEN << >>
  ELSE insertDailyCost(sortDailyCosts(SubSeq(list, 1, Len(list) - 1)), list[Len(list)])

\* value.toFixed(2): the magnitude rounded to hundredths, halves upward, the sign
\* kept
toFixed2(v) ==
  IF v.t = "NaN" THEN <<"N", "a", "N">>
  ELSE LET mag == IF v.n < 0 THEN 0 - v.n ELSE v.n
           cents == (mag + Scale \div 200) \div (Scale \div 100)
       IN  (IF v.n < 0 THEN <<"-">> ELSE << >>)
             \o NatToChars(cents \div 100) \o <<".">> \o Pad(cents % 100, 2)

Contains(value, c) == \E i \in 1..Len(value) : value[i] = c

\* value.replace(/"/g, '""')
doubleQuotes(value) ==
  Concat([i \in 1..Len(value) |-> IF value[i] = "\"" THEN <<"\"", "\"">> ELSE <<value[i]>>])

\* quoting that leaves the inner quotes single
escapeCSV_noDoubling(value) ==
  IF Contains(value, ",") \/ Contains(value, "\"") \/ Contains(value, "\n")
  THEN <<"\"">> \o value \o <<"\"">>
  ELSE value

escapeCSV(value) ==
  IF Contains(value, ",") \/ Contains(value, "\"") \/ Contains(value, "\n")
  THEN <<"\"">> \o doubleQuotes(value) \o <<"\"">>
  ELSE value

RECURSIVE joinLines(_)
\* lines.join('\n')
joinLines(lines) ==
  IF lines = << >> THEN << >>
  ELSE IF Len(lines) = 1 THEN lines[1]
  ELSE lines[1] \o <<"\n">> \o joinLines(Tail(lines))

csvHeader ==
  <<"d", "a", "t", "e", ",", "l", "i", "n", "e", "_", "i", "t", "e", "m", ",", "c",
    "o", "s", "t", "_", "u", "s", "d", ",", "p", "r", "o", "j", "e", "c", "t", "_",
    "i", "d">>

csvRow(daily, projectId) ==
  daily.date \o <<",">> \o escapeCSV(daily.lineItem) \o <<",">> \o toFixed2(daily.cost)
    \o <<",">> \o projectId

generateCSVReport(agg) ==
  LET sortedDailyCosts == sortDailyCosts(agg.dailyCosts)
      lines == <<csvHeader>> \o
                 [i \in 1..Len(sortedDailyCosts) |-> csvRow(sortedDailyCosts[i], agg.projectId)]
  IN  joinLines(lines) \o <<"\n">>

(* --------------------------- Markdown report ---------------------------- *)
mdTitleClaude ==
  <<"#", " ", "C", "l", "a", "u", "d", "e", " ", "A", "P", "I", " ", "U", "s", "a", "g",
    "e", " ", "R", "e", "p", "o", "r", "t">>
mdTitleOpenAI ==
  <<"#", " ", "O", "p", "e", "n", "A", "I", " ", "A", "P", "I", " ", "U", "s", "a", "g",
    "e", " ", "R", "e", "p", "o", "r", "t">>
mdBillingPeriod ==
  <<"*", "*", "B", "i", "l", "l", "i", "n", "g", " ", "P", "e", "r", "i", "o", "d", ":",
    "*", "*", " ">>
mdProjectId ==
  <<"*", "*", "P", "r", "o", "j", "e", "c", "t", " ", "I", "D", ":", "*", "*", " ">>
mdOrganization ==
  <<"*", "*", "O", "r", "g", "a", "n", "i", "z", "a", "t", "i", "o", "n", ":", "*", "*",
    " ">>
mdGenerated ==
  <<"*", "*", "G", "e", "n", "e", "r", "a", "t", "e", "d", ":", "*", "*", " ">>
mdSummary ==
  <<"#", "#", " ", "S", "u", "m", "m", "a", "r", "y">>
mdTotalCost ==
  <<"-", " ", "*", "*", "T", "o", "t", "a", "l", " ", "C", "o", "s", "t", ":", "*", "*",
    " ", "$">>
mdUsd ==
  <<" ", "U", "S", "D">>
mdBillingDays ==
  <<"-", " ", "*", "*", "B", "i", "l", "l", "i", "n", "g", " ", "D", "a", "y", "s", ":",
    "*", "*", " ">>
mdDays ==
  <<" ", "d", "a", "y", "s">>
mdAverageDailyCost ==
  <<"-", " ", "*", "*", "A", "v", "e", "r", "a", "g", "e", " ", "D", "a", "i", "l", "y",
    " ", "C", "o", "s", "t", ":", "*", "*", " ", "$">>
mdCostByModel ==
  <<"#", "#", " ", "C", "o", "s", "t", " ", "b", "y", " ", "M", "o", "d", "e", "l", "/",
    "S", "e", "r", "v", "i", "c", "e">>
mdCostByModelHead ==
  <<"|", " ", "M", "o", "d", "e", "l", "/", "S", "e", "r", "v", "i", "c", "e", " ", "|",
    " ", "T", "o", "t", "a", "l", " ", "C", "o", "s", "t", " ", "|", " ", "%", " ", "o",
    "f", " ", "T", "o", "t", "a", "l", " ", "|">>
mdCostByModelRule ==
  <<"|", "-", "-", "-", "-", "-", "-", "-", "-", "-", "-", "-", "-", "-", "-", "-", "|",
    "-", "-", "-", "-", "-", "-", "-", "-", "-", "-", "-", "|", "-", "-", "-", "-", "-",
    "-", "-", "-", "-", "-", "-", "-", "|">>
mdDailyBreakdown ==
  <<"#", "#", " ", "D", "a", "i", "l", "y", " ", "U", "s", "a", "g", "e", " ", "B", "r",
    "e", "a", "k", "d", "o", "w", "n">>
mdDailyBreakdownHead ==
  <<"|", " ", "D", "a", "t", "e", " ", "|", " ", "M", "o", "d", "e", "l", "/", "S", "e",
    "r", "v", "i", "c", "e", " ", "|", " ", "C", "o", "s", "t", " ", "(", "U", "S", "D",
    ")", " ", "|">>
mdDailyBreakdownRule ==
  <<"|", "-", "-", "-", "-", "-", "-", "|", "-", "-", "-", "-", "-", "-", "-", "-", "-",
    "-", "-", "-", "-", "-", "-", "|", "-", "-", "-", "-", "-", "-", "-", "-", "-", "-",
    "-", "|">>
mdTotalByDay ==
  <<"#", "#", " ", "T", "o", "t", "a", "l", " ", "b", "y", " ", "D", "a", "y">>
mdTotalByDayHead ==
  <<"|", " ", "D", "a", "t", "e", " ", "|", " ", "T", "o", "t", "a", "l", " ", "C", "o",
    "s", "t", " ", "|">>
mdTotalByDayRule ==
  <<"|", "-", "-", "-", "-", "-", "-", "|", "-", "-", "-", "-", "-", "-", "-", "-", "-",
    "-", "-", "|">>
mdNoUsage ==
  <<"N", "o", " ", "u", "s", "a", "g", "e", " ", "d", "a", "t", "a", " ", "f", "o", "r",
    " ", "t", "h", "i", "s", " ", "p", "e", "r", "i", "o", "d", ".">>
InvalidDateText ==
  <<"I", "n", "v", "a", "l", "i", "d", " ", "D", "a", "t", "e">>

MonthNames ==
  << <<"J", "a", "n", "u", "a", "r", "y">>,
     <<"F", "e", "b", "r", "u", "a", "r", "y">>,
     <<"M", "a", "r", "c", "h">>,
     <<"A", "p", "r", "i", "l">>,
     <<"M", "a", "y">>,
     <<"J", "u", "n", "e">>,
     <<"J", "u", "l", "y">>,
     <<"A", "u", "g", "u", "s", "t">>,
     <<"S", "e", "p", "t", "e", "m", "b", "e", "r">>,
     <<"O", "c", "t", "o", "b", "e", "r">>,
     <<"N", "o", "v", "e", "m", "b", "e", "r">>,
     <<"D", "e", "c", "e", "m", "b", "e", "r">> >>

\* formatDateForReport: toLocaleDateString('en-US', ...) of month, day and year in
\* UTC, each "Invalid Date" for an Invalid Date
formatDateForReport(date, includeYear) ==
  LET c == CivilFromDays(date.day)
      month == IF date.t = "NaN" THEN InvalidDateText ELSE MonthNames[c.m]
      day == IF date.t = "NaN" THEN InvalidDateText ELSE NatToChars(c.d)
      year == IF date.t = "NaN" THEN InvalidDateText ELSE NatToChars(c.y)
  IN  IF includeYear THEN month \o <<" ">> \o day \o <<",", " ">> \o year
      ELSE month \o <<" ">> \o day

\* b[1] - a[1] as the sort reads it: its sign, and 0 where it is NaN
compareLineItems(a, b) ==
  IF a.value.t = "NaN" \/ b.value.t = "NaN" THEN 0
  ELSE IF b.value.n < a.value.n THEN 0 - 1
  ELSE IF b.value.n > a.value.n THEN 1
  ELSE 0

RECURSIVE insertLineItem(_, _)
insertLineItem(sorted, x) ==
  IF sorted = << >> THEN <<x>>
  ELSE IF compareLineItems(sorted[Len(sorted)], x) <= 0 THEN Append(sorted, x)
  ELSE Append(insertLineItem(SubSeq(sorted, 1, Len(sorted) - 1), x), sorted[Len(sorted)])

RECURSIVE sortLineItems(_)
\* Array.from(costsByLineItem.entries()).sort((a, b) => b[1] - a[1]): a stable
\* sort of the entries in map order
sortLineItems(entries) ==
  IF entries = << >> THEN << >>
  ELSE insertLineItem(sortLineItems(SubSeq(entries, 1, Len(entries) - 1)),
                      entries[Len(entries)])

\* (cost / totalCost * 100).toFixed(1) for a positive total: the quotient rounded
\* to tenths, halves upward, the sign kept
toFixed1OfShare(cost, total) ==
  IF cost.t = "NaN" THEN <<"N", "a", "N">>
  ELSE LET mag == IF cost.n < 0 THEN 0 - cost.n ELSE cost.n
           tenths == (mag * 2000 + total.n) \div (2 * total.n)
       IN  (IF cost.n < 0 THEN <<"-">> ELSE << >>)
             \o NatToChars(tenths \div 10) \o <<".">> \o NatToChars(tenths % 10)

\* aggregated.totalCost > 0 ? (cost / aggregated.totalCost * 100).toFixed(1) : '0.0'
percentageOf(cost, total) ==
  IF total.t = "number" /\ total.n > 0 THEN toFixed1OfShare(cost, total)
  ELSE <<"0", ".", "0">>

costByModelRow(entry, total) ==
  <<"|", " ">> \o entry.key \o <<" ", "|", " ", "$">> \o toFixed2(entry.value)
    \o <<" ", "|", " ">> \o percentageOf(entry.value, total) \o <<"%", " ", "|">>

dailyBreakdownRow(daily) ==
  <<"|", " ">> \o daily.date \o <<" ", "|", " ">> \o daily.lineItem
    \o <<" ", "|", " ", "$">> \o toFixed2(daily.cost) \o <<" ", "|">>

\* const current = dailyTotals.get(daily.date) || 0;
\* dailyTotals.set(daily.date, current + daily.cost)
addDailyTotal(totals, daily) ==
  mapSet(totals, daily.date, Plus(OrElse(mapGet(totals, daily.date), Num(0)), daily.cost))

RECURSIVE dailyTotalsOf(_)
\* the Map dailyTotals after the loop over dailyCosts
dailyTotalsOf(dailyCosts) ==
  IF dailyCosts = << >> THEN << >>
  ELSE addDailyTotal(dailyTotalsOf(SubSeq(dailyCosts, 1, Len(dailyCosts) - 1)),
                     dailyCosts[Len(dailyCosts)])

RECURSIVE insertDate(_, _)
insertDate(sorted, x) ==
  IF sorted = << >> THEN <<x>>
  ELSE IF localeCompare(sorted[Len(sorted)].key, x.key) <= 0 THEN Append(sorted, x)
  ELSE Append(insertDate(SubSeq(sorted, 1, Len(sorted) - 1), x), sorted[Len(sorted)])

RECURSIVE sortDates(_)
\* Array.from(dailyTotals.entries()).sort((a, b) => a[0].localeCompare(b[0]))
sortDates(entries) ==
  IF entries = << >> THEN << >>
  ELSE insertDate(sortDates(SubSeq(entries, 1, Len(entries) - 1)), entries[Len(entries)])

\* the entries behind the rows of the Total by Day table
sortedDatesOf(agg) == sortDates(dailyTotalsOf(agg.dailyCosts))

totalByDayRow(entry) ==
  <<"|", " ">> \o entry.key \o <<" ", "|", " ", "$">> \o toFixed2(entry.value) \o <<" ", "|">>

\* the lines pushed when costsByLineItem has entries
markdownTables(agg) ==
  LET sortedLineItems == sortLineItems(agg.costsByLineItem)
      sortedDates == sortedDatesOf(agg)
  IN  <<mdCostByModel, << >>, mdCostByModelHead, mdCostByModelRule>>
        \o [i \in 1..Len(sortedLineItems) |-> costByModelRow(sortedLineItems[i], agg.totalCost)]
        \o << << >>, mdDailyBreakdown, << >>, mdDailyBreakdownHead, mdDailyBreakdownRule >>
        \o [i \in 1..Len(agg.dailyCosts) |-> dailyBreakdownRow(agg.dailyCosts[i])]
        \o << << >>, mdTotalByDay, << >>, mdTotalByDayHead, mdTotalByDayRule >>
        \o [i \in 1..Len(sortedDates) |-> totalByDayRow(sortedDates[i])]
        \o << << >> >>

\* the lines pushed before the tables: title, header fields, Summary
markdownHead(agg, orgId, prov, startDate, endDate, generated) ==
  << IF prov = "claude" THEN mdTitleClaude ELSE mdTitleOpenAI,
     << >>,
     mdBillingPeriod \o formatDateForReport(startDate, FALSE) \o <<" ", "-", " ">>
       \o formatDateForReport(endDate, TRUE),
     mdProjectId \o agg.projectId,
     mdOrganization \o orgId,
     mdGenerated \o generated,
     << >>,
     mdSummary,
     << >>,
     mdTotalCost \o toFixed2(agg.totalCost) \o mdUsd,
     mdBillingDays \o NatToChars(agg.billingDays) \o mdDays,
     mdAverageDailyCost \o toFixed2(agg.averageDailyCost) \o mdUsd,
     << >> >>

\* a report that prints the tables whatever costsByLineItem holds
generateMarkdownReport_alwaysTables(agg, orgId, prov, startDate, endDate, generated) ==
  joinLines(markdownHead(agg, orgId, prov, startDate, endDate, generated)
              \o markdownTables(agg))

\* generateMarkdownReport, startDate and endDate being the Dates made of
\* aggregated.startDate and aggregated.endDate and generated the time of the call
generateMarkdownReport(agg, orgId, prov, startDate, endDate, generated) ==
  joinLines(markdownHead(agg, orgId, prov, startDate, endDate, generated)
              \o (IF Len(agg.costsByLineItem) > 0 THEN markdownTables(agg)
                  ELSE <<mdNoUsage, << >> >>))

ReportOrg == <<"o", "r", "g">>

\* new Date().toISOString() at the time of the call
GeneratedTimes ==
  { <<"2", "0", "2", "4", "-", "0", "2", "-", "0", "1", "T", "1", "2", ":", "0", "0", ":", "0", "0", ".", "0", "0", "0", "Z">> }

\* one call of generateMarkdownReport
GenerateMarkdown ==
  /\ markdown = None
  /\ \E startDate \in newDate(report.startDate \o MidnightSuffix),
        endDate \in newDate(report.endDate \o MidnightSuffix),
        generated \in GeneratedTimes :
       markdown' = Returned(generateMarkdownReport(report, ReportOrg, provider,
                                                   startDate, endDate, generated))
  /\ UNCHANGED <<hostVars, fetchVars, normVars, aggVars, dateVars, report, csv>>


ReportDays == {Day2024Jan01, Day2024Jan01 + SecondsPerDay}

\* line items in either case, with the characters that CSV quotes, with signs
\* that collate apart from their code units, absent, and amounts that are equal,
\* zero, negative or not a number
ReportResultLists ==
  { << >>,
    << OpenAIResult(Str(<<"a">>), Num(15000)), OpenAIResult(Str(<<"B">>), Str(<<"0", ".", "5">>)) >>,
    << OpenAIResult(Str(<<"a", ",", "b">>), Num(22500)),
       OpenAIResult(Str(<<"s", "a", "y", " ", "\"", "h", "i", "\"">>), Num(5000)) >>,
    << OpenAIResult(Str(<<"x", "\n", "y">>), Num(15000)), OpenAIResult(Null, Num(20000)) >>,
    << OpenAIResult(Str(<<"a">>), Str(<<"a", "b", "c">>)), OpenAIResult(Str(<<"a">>), Num(15000)) >>,
    << OpenAIResult(Str(<<"a", "-", "b">>), Num(15000)),
       OpenAIResult(Str(<<"a", "_", "b">>), Num(15000)) >>,
    << OpenAIResult(Str(<<"a">>), Num(0)) >>,
    << OpenAIResult(Str(<<"b">>), Num(0 - 2500)) >> }

ReportBuckets ==
  { [object |-> "bucket", start_time |-> s, end_time |-> s + SecondsPerDay, results |-> rs] :
      s \in ReportDays, rs \in ReportResultLists }

\* the values aggregateCosts hands to the generators
ReportInputs == {Aggregated(bs) : bs \in SeqsUpTo(ReportBuckets, MaxBuckets)}

InitReport ==
  /\ hostIdle
  /\ provider \in {"openai", "claude"}
  /\ fetchIdle /\ normIdle /\ aggIdle /\ dateIdle
  /\ report \in ReportInputs
  /\ markdown = None /\ csv = None

\* a generator that sorts aggregated.dailyCosts itself, not a copy
GenerateCSV_inPlace ==
  /\ csv = None
  /\ csv' = Returned(generateCSVReport(report))
  /\ report' = [report EXCEPT !.dailyCosts = sortDailyCosts(report.dailyCosts)]
  /\ UNCHANGED <<hostVars, fetchVars, normVars, aggVars, dateVars, markdown>>

\* one call of generateCSVReport
GenerateCSV ==
  /\ csv = None
  /\ csv' = Returned(generateCSVReport(report))
  /\ UNCHANGED <<hostVars, fetchVars, normVars, aggVars, dateVars, report, markdown>>

NextReport == GenerateCSV \/ GenerateMarkdown

SpecReport == InitReport /\ [][NextReport]_vars

\* position i of a CSV text lies inside a quoted field: an odd number of quote
\* characters comes before it
InQuotes(text, i) == Cardinality({j \in 1..(i - 1) : text[j] = "\""}) % 2 = 1

\* the positions in lo..hi where the separator c stands outside quotes
Breaks(text, c, lo, hi) == {i \in lo..hi : text[i] = c /\ ~InQuotes(text, i)}

\* the k-th smallest element of a set of numbers
Nth(S, k) == CHOOSE x \in S : Cardinality({y \in S : y < x}) = k - 1

\* the stretches <<first, last>> of lo..hi between the separators c
Pieces(text, c, lo, hi) ==
  LET B == Breaks(text, c, lo, hi)
      n == Cardinality(B)
  IN  [k \in 1..(n + 1) |->
         << IF k = 1 THEN lo ELSE Nth(B, k - 1) + 1,
            IF k = n + 1 THEN hi ELSE Nth(B, k) - 1 >>]

\* the records of a CSV text, each a list of fields as they are written: a comma
\* ends a field and a newline a record unless inside quotes; a last newline ends
\* the last record
CsvRecords(text) ==
  IF text = << >> THEN << >>
  ELSE LET hi == IF text[Len(text)] = "\n" /\ ~InQuotes(text, Len(text))
                 THEN Len(text) - 1 ELSE Len(text)
           lines == Pieces(text, "\n", 1, hi)
       IN  [r \in 1..Len(lines) |->
              LET fields == Pieces(text, ",", lines[r][1], lines[r][2])
              IN  [f \in 1..Len(fields) |-> SubSeq(text, fields[f][1], fields[f][2])]]

RECURSIVE Undouble(_)
\* every doubled quote read as one quote
Undouble(s) ==
  IF s = << >> THEN << >>
  ELSE IF Len(s) >= 2 /\ s[1] = "\"" /\ s[2] = "\"" THEN <<"\"">> \o Undouble(Drop(s, 2))
  ELSE <<s[1]>> \o Undouble(Tail(s))

IsQuoted(raw) == Len(raw) >= 2 /\ raw[1] = "\"" /\ raw[Len(raw)] = "\""

\* the value a written field stands for
FieldValue(raw) ==
  IF IsQuoted(raw) THEN Undouble(SubSeq(raw, 2, Len(raw) - 1)) ELSE raw

\* the data rows of CSV records, each as <<date, lineItem, cost_usd, project_id>>
DataRows(records) ==
  [k \in 1..(Len(records) - 1) |->
     [f \in 1..Len(records[k + 1]) |-> FieldValue(records[k + 1][f])]]

CsvDataRows == DataRows(CsvRecords(csv.value))

RowOf(daily) == <<daily.date, daily.lineItem, toFixed2(daily.cost), report.projectId>>

Count(list, x) == Cardinality({i \in 1..Len(list) : list[i] = x})

\* header first, one row per daily record, a newline last
CsvShape(records, rows) ==
  /\ csv.value[Len(csv.value)] = "\n"
  /\ records[1] =
       << <<"d", "a", "t", "e">>, <<"l", "i", "n", "e", "_", "i", "t", "e", "m">>,
          <<"c", "o", "s", "t", "_", "u", "s", "d">>,
          <<"p", "r", "o", "j", "e", "c", "t", "_", "i", "d">> >>
  /\ Len(rows) = Len(report.dailyCosts)
  /\ LET given == [j \in 1..Len(report.dailyCosts) |-> RowOf(report.dailyCosts[j])]
     IN  \A i \in 1..Len(given) : Count(rows, given[i]) = Count(given, given[i])

\* the characters by code unit
CodeUnitOrder ==
  <<"\n", " ", "\"", ",", "-", ".">> \o Digits \o <<":">> \o Uppers \o <<"_">> \o Lowers
    \o <<"|">>

CodeUnit(c) == CHOOSE i \in 1..Len(CodeUnitOrder) : CodeUnitOrder[i] = c

\* a < b, a = b or a > b by code units, as -1, 0 or 1
CodeUnitCompare(a, b) ==
  CompareWeights([i \in 1..Len(a) |-> CodeUnit(a[i])], [i \in 1..Len(b) |-> CodeUnit(b[i])])

\* C16: the CSV report is the header, one data row per dailyCosts record and a
\* final newline, the rows ascending by date string and, within a date, by
\* line-item string, both compared character by character (lexicographically),
\* whatever the order of dailyCosts.
C16_RowsLexicographic ==
  csv # None =>
    LET records == CsvRecords(csv.value)
        rows == DataRows(records)
    IN  /\ CsvShape(records, rows)
        /\ \A k \in 1..(Len(rows) - 1) :
             \/ CodeUnitCompare(rows[k][1], rows[k + 1][1]) < 0
             \/ /\ rows[k][1] = rows[k + 1][1]
                /\ CodeUnitCompare(rows[k][2], rows[k + 1][2]) <= 0

\* C16, amended: the rows ascend by date and, within a date, by line item in the
\* order of localeCompare, which puts a lowercase letter before its uppercase,
\* both before the next letter, and "_" before "-".
C16_RowsCollated ==
  csv # None =>
    LET records == CsvRecords(csv.value)
        rows == DataRows(records)
    IN  /\ CsvShape(records, rows)
        /\ \A k \in 1..(Len(rows) - 1) :
             \/ localeCompare(rows[k][1], rows[k + 1][1]) < 0
             \/ /\ localeCompare(rows[k][1], rows[k + 1][1]) = 0
                /\ localeCompare(rows[k][2], rows[k + 1][2]) <= 0

\* records of two days given latest first, with line items "a" and "B" on one day
C16_Witness ==
  /\ csv # None
  /\ Len(report.dailyCosts) = 4
  /\ report.dailyCosts[1].date = isoDateOfSeconds(Day2024Jan01 + SecondsPerDay)
  /\ report.dailyCosts[3].date = isoDateOfSeconds(Day2024Jan01)
  /\ report.dailyCosts[3].lineItem = <<"a", "-", "b">>
  /\ report.dailyCosts[4].lineItem = <<"a", "_", "b">>
  /\ CsvDataRows[1][2] = <<"a", "_", "b">>
  /\ CsvDataRows[2][2] = <<"a", "-", "b">>
  /\ CsvDataRows[3][2] = <<"a">>
  /\ CsvDataRows[4][2] = <<"B">>

NeedsQuoting(value) == \E i \in 1..Len(value) : value[i] \in {",", "\"", "\n"}

\* the written fields of the line-item column
LineItemFields(records) == [k \in 1..(Len(records) - 1) |-> records[k + 1][2]]

CsvLineItemFields == LineItemFields(CsvRecords(csv.value))

NoLoneQuote(inner) ==
  \A i \in 1..Len(inner) :
    inner[i] = "\"" =>
      Cardinality({j \in 1..i : \A h \in j..i : inner[h] = "\""}) % 2 = 0
        \/ (i < Len(inner) /\ inner[i + 1] = "\"")

\* C17: a line item is written between double quotes, its own quotes doubled, if
\* and only if it holds a comma, a double quote or a newline; any other line item
\* is written as it is.
C17_EscapeIff ==
  csv # None =>
    LET written == CsvLineItemFields
    IN  /\ Len(written) = Len(report.dailyCosts)
        /\ \A i \in 1..Len(report.dailyCosts) :
             LET value == report.dailyCosts[i].lineItem
             IN  \E k \in 1..Len(written) :
                   IF NeedsQuoting(value)
                   THEN /\ IsQuoted(written[k])
                        /\ NoLoneQuote(SubSeq(written[k], 2, Len(written[k]) - 1))
                        /\ Undouble(SubSeq(written[k], 2, Len(written[k]) - 1)) = value
                        /\ Len(written[k]) = Len(value) + 2 + Count(value, "\"")
                   ELSE written[k] = value

C17_Witness ==
  /\ csv # None
  /\ \E i \in 1..Len(report.dailyCosts) :
       report.dailyCosts[i].lineItem = <<"s", "a", "y", " ", "\"", "h", "i", "\"">>
  /\ \E k \in 1..Len(CsvLineItemFields) :
       CsvLineItemFields[k] =
         <<"\"", "s", "a", "y", " ", "\"", "\"", "h", "i", "\"", "\"", "\"">>
  /\ \E k \in 1..Len(CsvLineItemFields) : CsvLineItemFields[k] = <<"u", "n", "k", "n", "o", "w", "n">>

\* the lines of a text: the stretches between its newlines
LinesOf(text) ==
  LET B == {i \in 1..Len(text) : text[i] = "\n"}
      n == Cardinality(B)
  IN  [k \in 1..(n + 1) |->
         SubSeq(text, IF k = 1 THEN 1 ELSE Nth(B, k - 1) + 1,
                      IF k = n + 1 THEN Len(text) ELSE Nth(B, k) - 1)]

StartsWith(line, prefix) ==
  Len(line) >= Len(prefix) /\ SubSeq(line, 1, Len(prefix)) = prefix

\* the first thirteen lines are the title, the header fields and the Summary
HeadFirst(lines) ==
  /\ Len(lines) >= 13
  /\ lines[1] = (IF provider = "claude" THEN mdTitleClaude ELSE mdTitleOpenAI)
  /\ lines[2] = << >>
  /\ StartsWith(lines[3], mdBillingPeriod)
  /\ lines[4] = mdProjectId \o report.projectId
  /\ lines[5] = mdOrganization \o ReportOrg
  /\ StartsWith(lines[6], mdGenerated)
  /\ lines[7] = << >>
  /\ lines[8] = mdSummary
  /\ lines[9] = << >>
  /\ StartsWith(lines[10], mdTotalCost)
  /\ StartsWith(lines[11], mdBillingDays)
  /\ StartsWith(lines[12], mdAverageDailyCost)
  /\ lines[13] = << >>

\* where a line stands after the head
LinesEqual(lines, line) == {i \in 14..Len(lines) : lines[i] = line}

\* a table: its heading once, then a blank line, the column heads and the rule
HasTable(lines, heading, head, rule) ==
  /\ Cardinality(LinesEqual(lines, heading)) = 1
  /\ \A i \in LinesEqual(lines, heading) :
       /\ i + 3 <= Len(lines)
       /\ lines[i + 1] = << >> /\ lines[i + 2] = head /\ lines[i + 3] = rule

\* C18: after the title, the header fields and the Summary, generateMarkdownReport
\* prints the three tables (Cost by Model/Service, Daily Usage Breakdown, Total by
\* Day, in this order) if costsByLineItem has entries, and only the line "No usage
\* data for this period." if it has none.
C18_TablesIffLineItems ==
  markdown # None =>
    LET lines == LinesOf(markdown.value)
    IN  /\ HeadFirst(lines)
        /\ report.costsByLineItem # << >> =>
             /\ HasTable(lines, mdCostByModel, mdCostByModelHead, mdCostByModelRule)
             /\ HasTable(lines, mdDailyBreakdown, mdDailyBreakdownHead, mdDailyBreakdownRule)
             /\ HasTable(lines, mdTotalByDay, mdTotalByDayHead, mdTotalByDayRule)
             /\ \A i \in LinesEqual(lines, mdCostByModel),
                   j \in LinesEqual(lines, mdDailyBreakdown),
                   k \in LinesEqual(lines, mdTotalByDay) : i = 14 /\ i < j /\ j < k
             /\ LinesEqual(lines, mdNoUsage) = {}
        /\ report.costsByLineItem = << >> =>
             /\ SubSeq(lines, 14, Len(lines)) = <<mdNoUsage, << >> >>
             /\ \A heading \in {mdCostByModel, mdDailyBreakdown, mdTotalByDay} :
                  LinesEqual(lines, heading) = {}

\* two days without usage: no table
C18_Witness ==
  /\ markdown # None
  /\ report.billingDays = 2 /\ report.costsByLineItem = << >>
  /\ Len(LinesOf(markdown.value)) = 15
  /\ LinesOf(markdown.value)[14] = mdNoUsage

\* usage: the three tables
C18_TablesPrinted ==
  /\ markdown # None
  /\ report.costsByLineItem # << >>
  /\ LinesOf(markdown.value)[14] = mdCostByModel
  /\ LinesEqual(LinesOf(markdown.value), mdTotalByDay) # {}

\* the lines of the table under a heading, joined: from below the rule to the
\* next blank line
TableRows(lines, heading) ==
  LET i == CHOOSE h \in LinesEqual(lines, heading) : TRUE
      last == CHOOSE j \in (i + 3)..Len(lines) :
                /\ lines[j + 1] = << >>
                /\ \A h \in (i + 4)..j : lines[h] # << >>
  IN  joinLines(SubSeq(lines, i + 4, last))

\* the place of entry i in descending order of cost, equal costs in map order
DescendingRank(entries, i) ==
  1 + Cardinality({j \in 1..Len(entries) :
                     /\ entries[j].value.t = "number" /\ entries[i].value.t = "number"
                     /\ entries[j].value.n > entries[i].value.n})
    + Cardinality({j \in 1..(i - 1) : entries[j].value = entries[i].value})

\* cost / total * 100 to one decimal place; where noShare holds, 0.0
ShareText(cost, total, noShare) ==
  IF noShare THEN <<"0", ".", "0">>
  ELSE IF cost.t = "NaN" \/ total.t = "NaN" \/ total.n = 0 THEN <<"N", "a", "N">>
  ELSE LET c == IF cost.n < 0 THEN 0 - cost.n ELSE cost.n
           d == IF total.n < 0 THEN 0 - total.n ELSE total.n
           tenths == (c * 2000 + d) \div (2 * d)
       IN  (IF (cost.n < 0) # (total.n < 0) /\ cost.n # 0 THEN <<"-">> ELSE << >>)
             \o NatToChars(tenths \div 10) \o <<".">> \o NatToChars(tenths % 10)

\* the Cost by Model/Service table lists the entries of costsByLineItem by
\* descending cost, each with its cost and share
CostByModelTableIs(lines, noShare) ==
  LET entries == report.costsByLineItem
      ranks == 1..Len(entries)
  IN  /\ \A k \in ranks : Cardinality({i \in ranks : DescendingRank(entries, i) = k}) = 1
      /\ TableRows(lines, mdCostByModel) =
           joinLines([k \in ranks |->
             LET e == entries[CHOOSE i \in ranks : DescendingRank(entries, i) = k]
             IN  <<"|", " ">> \o e.key \o <<" ", "|", " ", "$">> \o toFixed2(e.value)
                   \o <<" ", "|", " ">> \o ShareText(e.value, report.totalCost, noShare)
                   \o <<"%", " ", "|">>])

IsZero(v) == v.t = "number" /\ v.n = 0

\* C19: the Cost by Model/Service table has one row per costsByLineItem entry, in
\* descending order of cost, entries of equal cost in map order; the percentage
\* of a row is cost / totalCost * 100 to one decimal place, and 0.0 when
\* totalCost is zero.
C19_CostByModelTable ==
  markdown # None /\ report.costsByLineItem # << >> =>
    CostByModelTableIs(LinesOf(markdown.value), IsZero(report.totalCost))

\* every cost of the report is a number
NumericReport ==
  /\ report.totalCost.t = "number"
  /\ \A i \in 1..Len(report.dailyCosts) : report.dailyCosts[i].cost.t = "number"
  /\ \A i \in 1..Len(report.costsByLineItem) : report.costsByLineItem[i].value.t = "number"

\* the same table for numeric costs, with 0.0 for every total that is not above
\* zero
C19_CostByModelTableWhenNumeric ==
  markdown # None /\ report.costsByLineItem # << >> /\ NumericReport =>
    CostByModelTableIs(LinesOf(markdown.value), report.totalCost.n <= 0)

\* the dates of the daily records
DatesOf(dailyCosts) == {dailyCosts[i].date : i \in 1..Len(dailyCosts)}

\* the sum of the costs of the daily records of one date
SumOfDate(dailyCosts, date) ==
  LET I == {i \in 1..Len(dailyCosts) : dailyCosts[i].date = date}
  IN  SumNumbers([k \in 1..Cardinality(I) |-> dailyCosts[Nth(I, k)].cost])

\* one entry per date, ascending, each with the sum of its date
TotalsByDay(dailyCosts) ==
  LET D == DatesOf(dailyCosts)
  IN  [k \in 1..Cardinality(D) |->
         LET date == CHOOSE d \in D :
                       Cardinality({e \in D : CodeUnitCompare(e, d) < 0}) = k - 1
         IN  [key |-> date, value |-> SumOfDate(dailyCosts, date)]]

\* C20: the Total by Day table has exactly one row per date of dailyCosts, in
\* ascending order of date; the total of a row is the sum of the costs of the
\* records of its date, and the totals of the rows add up to the sum of all costs.
C20_TotalByDay ==
  markdown # None /\ report.costsByLineItem # << >> =>
    /\ sortedDatesOf(report) = TotalsByDay(report.dailyCosts)
    /\ TableRows(LinesOf(markdown.value), mdTotalByDay) =
         joinLines([k \in 1..Len(TotalsByDay(report.dailyCosts)) |->
           <<"|", " ">> \o TotalsByDay(report.dailyCosts)[k].key \o <<" ", "|", " ", "$">>
             \o toFixed2(TotalsByDay(report.dailyCosts)[k].value) \o <<" ", "|">>])
    /\ SumNumbers([k \in 1..Len(sortedDatesOf(report)) |-> sortedDatesOf(report)[k].value])
         = SumNumbers([i \in 1..Len(report.dailyCosts) |-> report.dailyCosts[i].cost])

\* the same for numeric costs
C20_TotalByDayWhenNumeric == NumericReport => C20_TotalByDay

\* C28: the keys of costsByLineItem are the line items of dailyCosts, each key
\* once; every line item is a non-empty string, "unknown" standing for a null or
\* empty line_item; costsByLineItem is empty exactly when dailyCosts is, that is
\* when no bucket has a result.
C28_KeysAreLineItems ==
  aggregated # None =>
    /\ {aggregated.costsByLineItem[i].key : i \in 1..Len(aggregated.costsByLineItem)}
         = {aggregated.dailyCosts[i].lineItem : i \in 1..Len(aggregated.dailyCosts)}
    /\ \A i, j \in 1..Len(aggregated.costsByLineItem) :
         aggregated.costsByLineItem[i].key = aggregated.costsByLineItem[j].key => i = j
    /\ \A i \in 1..Len(aggregated.dailyCosts) : aggregated.dailyCosts[i].lineItem # << >>
    /\ Len(aggregated.dailyCosts) = Len(FlatResults(buckets))
    /\ \A i \in 1..Len(FlatResults(buckets)) :
         LET given == FlatResults(buckets)[i].result.line_item
         IN  aggregated.dailyCosts[i].lineItem =
               (IF given.t = "string" /\ given.s # << >> THEN given.s ELSE Unknown)
    /\ aggregated.costsByLineItem = << >> <=> aggregated.dailyCosts = << >>
    /\ aggregated.dailyCosts = << >> <=> \A i \in 1..Len(buckets) : buckets[i].results = << >>

\* a null and an empty line_item, both recorded as "unknown"
C28_Witness ==
  /\ aggregated # None
  /\ \E i, j \in 1..Len(FlatResults(buckets)) :
       /\ FlatResults(buckets)[i].result.line_item = Null
       /\ FlatResults(buckets)[j].result.line_item = Str(<< >>)
       /\ aggregated.dailyCosts[i].lineItem = Unknown
       /\ aggregated.dailyCosts[j].lineItem = Unknown
  /\ Cardinality({i \in 1..Len(aggregated.costsByLineItem) :
                    aggregated.costsByLineItem[i].key = Unknown}) = 1

(***************************************************************************)
(* generateCSVReport on daily records in every order.                      *)
(***************************************************************************)
MaxDailyRecords == 3

\* buckets of one result each: two days, line items shared between days and
\* within a day, line items with a comma, a quote and a newline
OneResultBuckets ==
  { [object |-> "bucket", start_time |-> c[1], end_time |-> c[1] + SecondsPerDay,
     results |-> << OpenAIResult(Str(c[2]), c[3]) >>] :
      c \in { <<Day2024Jan01, <<"a">>, Num(15000)>>,
              <<Day2024Jan01, <<"B">>, Str(<<"0", ".", "5">>)>>,
              <<Day2024Jan01 + SecondsPerDay, <<"a">>, Num(22500)>>,
              <<Day2024Jan01, <<"a">>, Num(5000)>>,
              <<Day2024Jan01 + SecondsPerDay, <<"a", ",", "b">>, Num(15000)>>,
              <<Day2024Jan01, <<"x", "\"", "y", "\n", "z">>, Num(5000)>> } }

\* project ids: plain, and with a comma
ProjectIds == {ReportProject, <<"p", ",", "1">>}

OrderInputs ==
  {aggregateCosts(bs, ReportStart, ReportEnd, projectId) :
     bs \in SeqsUpTo(OneResultBuckets, MaxDailyRecords), projectId \in ProjectIds}

InitCsvOrder ==
  /\ hostIdle
  /\ provider = "openai"
  /\ fetchIdle /\ normIdle /\ aggIdle /\ dateIdle
  /\ report \in OrderInputs
  /\ markdown = None /\ csv = None

NextCsvOrder == GenerateCSV

SpecCsvOrder == InitCsvOrder /\ [][NextCsvOrder]_vars

RECURSIVE PermutationsOf(_)
\* the sequences that hold the elements of s in some order
PermutationsOf(s) ==
  IF s = << >> THEN {<< >>}
  ELSE UNION {{<<s[i]>> \o q :
                 q \in PermutationsOf(SubSeq(s, 1, i - 1) \o SubSeq(s, i + 1, Len(s)))} :
              i \in 1..Len(s)}

\* no two daily records have both date and line item in common
DistinctKeys(dailyCosts) ==
  \A i, j \in 1..Len(dailyCosts) :
    dailyCosts[i].date = dailyCosts[j].date /\ dailyCosts[i].lineItem = dailyCosts[j].lineItem
      => i = j

\* the CSV text is the same for the daily records in every order
SameTextInEveryOrder ==
  \A q \in PermutationsOf(report.dailyCosts) :
    generateCSVReport([report EXCEPT !.dailyCosts = q]) = csv.value

C29_SharedKeyOrderShows ==
  /\ csv # None
  /\ ~DistinctKeys(report.dailyCosts)
  /\ ~SameTextInEveryOrder

\* C30: every data row of the CSV report, read by CSV rules (quoted fields,
\* doubled quotes), has exactly four fields, the second being the line item of
\* its record, whatever the line item and the project id are.
C30_RowsParseBack ==
  csv # None =>
    LET rows == DataRows(CsvRecords(csv.value))
        lineItems == [i \in 1..Len(report.dailyCosts) |-> report.dailyCosts[i].lineItem]
    IN  /\ Len(rows) = Len(report.dailyCosts)
        /\ \A k \in 1..Len(rows) : Len(rows[k]) = 4
        /\ \A i \in 1..Len(lineItems) :
             Count([k \in 1..Len(rows) |-> rows[k][2]], lineItems[i])
               = Count(lineItems, lineItems[i])

\* the same for a project id without comma, quote or newline
C30_RowsParseBackPlainProject == ~NeedsQuoting(report.projectId) => C30_RowsParseBack

(* ------------------- structure of the Claude normalization --------------- *)
\* the vendor buckets of the responses received so far, in arrival order
VendorBuckets == Concat([k \in 1..Len(responses) |-> responses[k].data])

\* the instant an RFC 3339 text of the vendor names, in whole unix seconds
InstantOf(text) ==
  CASE text = Jan01 -> Day2024Jan01
    [] text = Jan02 -> Day2024Jan01 + SecondsPerDay
    [] text = Jan03 -> Day2024Jan01 + 2 * SecondsPerDay

\* C25: the buckets fetchClaudeCosts holds are the vendor buckets one for one in
\* vendor order, each with one result per vendor result in vendor order; every
\* result has project_id null; start_time and end_time are the instants of
\* starting_at and ending_at in whole unix seconds.
C25_StructurePreserved ==
  provider = "claude" =>
    LET vendor == VendorBuckets
    IN  /\ Len(allBuckets) = Len(vendor)
        /\ \A i \in 1..Len(vendor) :
             /\ allBuckets[i].start_time = InstantOf(vendor[i].starting_at)
             /\ allBuckets[i].end_time = InstantOf(vendor[i].ending_at)
             /\ Len(allBuckets[i].results) = Len(vendor[i].results)
             /\ \A j \in 1..Len(vendor[i].results) :
                  /\ allBuckets[i].results[j].project_id = Null
                  /\ allBuckets[i].results[j].line_item
                       = Str(claudeLineItem(vendor[i].results[j]))
                  /\ allBuckets[i].results[j].amount.value
                       = claudeCostUsd(vendor[i].results[j])
        /\ outcome.kind = "returned" => outcome.value = allBuckets

C25_Witness ==
  /\ provider = "claude" /\ outcome.kind = "returned"
  /\ Len(responses) = 2 /\ Len(allBuckets) = 2
  /\ Len(allBuckets[1].results) = 2 /\ Len(allBuckets[2].results) = 1
  /\ allBuckets[1].results[1].line_item # allBuckets[1].results[2].line_item
  /\ allBuckets[1].start_time = Day2024Jan01 + SecondsPerDay
  /\ allBuckets[2].start_time = Day2024Jan01
(* ---------------------- the requests of one fetch run ------------------- *)
\* a request with its page parameter taken out
WithoutPage(request) == [request EXCEPT !.page = Undefined]

\* C27: every request of a run has the params (other than page) and the headers
\* of the first request of the run, which are those the config gives; the first
\* request has no page, and the page of every later request is the next_page of
\* the response immediately before it.
C27_OnlyPageChanges ==
  /\ \A k \in 1..Len(requests) : WithoutPage(requests[k]) = WithoutPage(requests[1])
  /\ requests # << >> =>
       /\ requests[1].page = Undefined
       /\ IF provider = "openai"
          THEN /\ requests[1].start_time = DayNumberOf(config.startDate) * SecondsPerDay
               /\ requests[1].end_time = DayNumberOf(config.endDate) * SecondsPerDay
               /\ requests[1].project_ids = <<config.projectId>>
               /\ requests[1].limit = 180
               /\ requests[1].headers.OpenAIOrganization = config.orgId
               /\ requests[1].headers.Authorization[2] = config.apiKey
          ELSE /\ SubSeq(requests[1].starting_at, 1, 10) = config.startDate
               /\ SubSeq(requests[1].ending_at, 1, 10) = config.endDate
               /\ requests[1].limit = 31
               /\ requests[1].headers.xApiKey = config.apiKey
  /\ \A k \in 2..Len(requests) : requests[k].page = responses[k - 1].next_page

C27_Witness ==
  /\ Len(requests) = 3 /\ Len(responses) = 2
  /\ requests[2].page = Str(<<"p", "2">>) /\ requests[3].page = Str(<<"p", "3">>)
  /\ responses[1].next_page # responses[2].next_page
(* ------------- the fetchers called with any start and end date ---------- *)
\* a calendar day, a later one, a day its month does not have, a string off
\* the pattern
AnyDates == {Date20240101, Date20240105, Date20240230, DateOffPattern}

AnyOpenAIConfigs ==
  [startDate : AnyDates, endDate : AnyDates,
   apiKey : {"sk-admin-1"}, orgId : {"org-1"}, projectId : {"proj_1"}]
AnyClaudeConfigs ==
  [startDate : AnyDates, endDate : AnyDates, apiKey : {"sk-ant-admin-1"}]

\* a library caller calls a fetcher with a config of its own making
InitAnyDates ==
  /\ hostIdle
  /\ provider \in {"openai", "claude"}
  /\ config \in (IF provider = "openai" THEN AnyOpenAIConfigs ELSE AnyClaudeConfigs)
  /\ pc = "start" /\ loopIdle
  /\ startTime = None /\ endTime = None
  /\ normIdle /\ aggIdle /\ dateIdle /\ reportIdle

\* fetchOpenAICosts from its entry to the top of the do body
OpenAIConvertDates ==
  /\ provider = "openai"
  /\ pc = "start"
  /\ \E bounds \in openAIBounds(config) :
       IF bounds.kind = "returned"
       THEN /\ startTime' = bounds.value[1] /\ endTime' = bounds.value[2]
            /\ pc' = "idle" /\ outcome' = outcome
       ELSE /\ pc' = "failed" /\ outcome' = [kind |-> "rejected"]
            /\ UNCHANGED <<startTime, endTime>>
  /\ UNCHANGED <<hostVars, provider, config, nextPage, allBuckets, requests, responses, inflight,
                 normVars, aggVars, dateVars, reportVars>>

\* fetchClaudeCosts from its entry to the top of the do body
ClaudeConvertDates ==
  /\ provider = "claude"
  /\ pc = "start"
  /\ \E bounds \in claudeBounds(config) :
       IF bounds.kind = "returned"
       THEN /\ startTime' = bounds.value[1] /\ endTime' = bounds.value[2]
            /\ pc' = "idle" /\ outcome' = outcome
       ELSE /\ pc' = "failed" /\ outcome' = [kind |-> "rejected"]
            /\ UNCHANGED <<startTime, endTime>>
  /\ UNCHANGED <<hostVars, provider, config, nextPage, allBuckets, requests, responses, inflight,
                 normVars, aggVars, dateVars, reportVars>>

NextAnyDates ==
  \/ OpenAIConvertDates
  \/ ClaudeConvertDates
  \/ OpenAIIssueRequest
  \/ OpenAIReceiveResponse
  \/ OpenAIReceiveError
  \/ ClaudeIssueRequest
  \/ ClaudeReceiveResponse
  \/ ClaudeReceiveError

SpecAnyDates == InitAnyDates /\ [][NextAnyDates]_vars

\* both dates of the config are calendar days and the end is after the start
ValidRange(cfg) ==
  /\ IsRealDate(cfg.startDate) /\ IsRealDate(cfg.endDate)
  /\ DayNumberOf(cfg.endDate) > DayNumberOf(cfg.startDate)

\* C26 as stated: a fetcher called directly issues a request only when both
\* config dates are strict YYYY-MM-DD calendar days and endDate is after
\* startDate.
C26_NoRequestUnlessValidRange == requests # << >> => ValidRange(config)

\* what fetchOpenAICosts does check: both dates pass parseDate
C26_OpenAIRequestsOnlyWithCalendarDays ==
  provider = "openai" /\ requests # << >> =>
    IsRealDate(config.startDate) /\ IsRealDate(config.endDate)

\* a date parseDate rejects stops fetchOpenAICosts before its first request
C26_OpenAIBadDateFailsFirst ==
  provider = "openai" /\ ~(IsRealDate(config.startDate) /\ IsRealDate(config.endDate))
    => requests = << >> /\ pc \in {"start", "failed"}

\* fetchOpenAICosts has sent a request for a range that ends before it starts
C26_ReversedRangeRequested ==
  /\ provider = "openai" /\ requests # << >>
  /\ config.startDate = Date20240105 /\ config.endDate = Date20240101
  /\ requests[1].start_time > requests[1].end_time

\* fetchClaudeCosts has sent a request for 2024-02-30, as the first of March
C26_ClaudeRolledOverRequested ==
  /\ provider = "claude" /\ requests # << >>
  /\ config.startDate = Date20240230
  /\ SubSeq(requests[1].starting_at, 1, 10) = <<"2","0","2","4","-","0","3","-","0","1">>
(* ------------- fetch and aggregate runs sharing one host process -------- *)
MaxRunRequests == 2

Runs == {1, 2}

\* the config the caller of run r passes to the fetcher of the provider
RunConfig(r, p) ==
  IF p = "openai"
  THEN [startDate |-> IF r = 1 THEN Date20240101 ELSE Date20240105,
        endDate |-> IF r = 1 THEN Date20240105 ELSE Date20240201,
        apiKey |-> IF r = 1 THEN "sk-admin-1" ELSE "sk-admin-2",
        orgId |-> IF r = 1 THEN "org-1" ELSE "org-2",
        projectId |-> IF r = 1 THEN <<"p", "1">> ELSE <<"p", "2">>]
  ELSE [startDate |-> IF r = 1 THEN Date20240101 ELSE Date20240105,
        endDate |-> IF r = 1 THEN Date20240105 ELSE Date20240201,
        apiKey |-> IF r = 1 THEN "sk-ant-admin-1" ELSE "sk-ant-admin-2"]

RunBounds(p, cfg) == IF p = "openai" THEN openAIBounds(cfg) ELSE claudeBounds(cfg)

\* the next_page values a response to a run can carry
RunCursors == {Null, Str(<<"p", "2">>)}

\* the pages that carry buckets
RunPages(p) == {page \in (IF p = "openai" THEN OpenAIPages ELSE ClaudePages) : page # << >>}

RunResponses(p) == [data : RunPages(p), has_more : BOOLEAN, next_page : RunCursors]

\* the canonical buckets the fetcher of provider p pushes for a response
pushedBuckets(p, resp) ==
  IF p = "openai" THEN resp.data
  ELSE [i \in 1..Len(resp.data) |-> claudeBucketToCostBucket(resp.data[i])]

\* the locals of one call of a fetcher at the top of its do body, and the
\* caller's aggregated, not computed yet
fetchLocals(p, cfg, bounds) ==
  [provider |-> p, config |-> cfg,
   startTime |-> bounds.value[1], endTime |-> bounds.value[2],
   pc |-> "idle", nextPage |-> Null, allBuckets |-> << >>,
   requests |-> << >>, responses |-> << >>,
   outcome |-> [kind |-> "pending"], aggregated |-> None]

\* the dates of a RunConfig are calendar days, for which the conversions before
\* the loop have one result
RunAtLoop(r, p) ==
  fetchLocals(p, RunConfig(r, p),
              CHOOSE b \in RunBounds(p, RunConfig(r, p)) : b.kind = "returned")

InitRuns ==
  /\ provider = "openai"
  /\ fetchIdle /\ normIdle /\ aggIdle /\ dateIdle /\ reportIdle
  /\ cli = None
  /\ \E ps \in [Runs -> {"openai", "claude"}] :
       runs = [r \in Runs |-> RunAtLoop(r, ps[r])]

\* the request a run sends for its current locals
runRequest(run) ==
  IF run.provider = "openai"
  THEN openAIRequest(run.config, run.startTime, run.endTime, run.nextPage)
  ELSE claudeRequest(run.config, run.startTime, run.endTime, run.nextPage)

\* one run reaches its axios.get
RunIssueRequest ==
  \E r \in Runs :
    /\ runs[r].pc \in {"idle", "loop"}
    /\ Len(runs[r].requests) < MaxRunRequests
    /\ runs' = [runs EXCEPT ![r].requests = Append(@, runRequest(runs[r])),
                            ![r].pc = "await"]
    /\ UNCHANGED <<fetchVars, normVars, aggVars, dateVars, reportVars, cli>>

\* the locals of a run after the response resp to its awaited request
afterResponse(run, resp) ==
  LET cursor == IF resp.has_more THEN resp.next_page ELSE Null
      pushed == run.allBuckets \o pushedBuckets(run.provider, resp)
  IN  [run EXCEPT !.responses = Append(@, resp),
                  !.allBuckets = pushed,
                  !.nextPage = cursor,
                  !.pc = IF Truthy(cursor) THEN "loop" ELSE "done",
                  !.outcome = IF Truthy(cursor) THEN @
                              ELSE [kind |-> "returned", value |-> pushed]]

\* fetchers that push to one array of the module instead of a local one
RunReceiveResponse_sharedBuckets ==
  \E r \in Runs :
    /\ runs[r].pc = "await"
    /\ \E resp \in RunResponses(runs[r].provider) :
         runs' = [q \in Runs |->
                   IF q = r THEN afterResponse(runs[r], resp)
                   ELSE [runs[q] EXCEPT !.allBuckets =
                           @ \o pushedBuckets(runs[r].provider, resp)]]
    /\ UNCHANGED <<fetchVars, normVars, aggVars, dateVars, reportVars, cli>>

\* the awaited axios.get of one run resolves
RunReceiveResponse ==
  \E r \in Runs :
    /\ runs[r].pc = "await"
    /\ \E resp \in RunResponses(runs[r].provider) :
         runs' = [runs EXCEPT ![r] = afterResponse(@, resp)]
    /\ UNCHANGED <<fetchVars, normVars, aggVars, dateVars, reportVars, cli>>

\* the awaited axios.get of one run rejects
RunReceiveError ==
  \E r \in Runs :
    /\ runs[r].pc = "await"
    /\ runs' = [runs EXCEPT ![r].pc = "failed", ![r].outcome = [kind |-> "rejected"]]
    /\ UNCHANGED <<fetchVars, normVars, aggVars, dateVars, reportVars, cli>>

\* the caller of a run passes the returned buckets to aggregateCosts
RunAggregate ==
  \E r \in Runs :
    /\ runs[r].pc = "done"
    /\ runs' = [runs EXCEPT
                  ![r].aggregated =
                     aggregateCosts(runs[r].outcome.value, runs[r].config.startDate,
                                    runs[r].config.endDate,
                                    IF runs[r].provider = "openai"
                                    THEN runs[r].config.projectId
                                    ELSE <<"d", "e", "f", "a", "u", "l", "t">>),
                  ![r].pc = "aggregated"]
    /\ UNCHANGED <<fetchVars, normVars, aggVars, dateVars, reportVars, cli>>

NextRuns ==
  \/ RunIssueRequest
  \/ RunReceiveResponse
  \/ RunReceiveError
  \/ RunAggregate

SpecRuns == InitRuns /\ [][NextRuns]_vars

\* the buckets of the pages run r has received, in page order
OwnBuckets(r) ==
  Concat([k \in 1..Len(runs[r].responses) |->
            pushedBuckets(runs[r].provider, runs[r].responses[k])])

\* what run r holds is made of its own config and its own responses
OwnState(r) ==
  /\ runs[r].config = RunConfig(r, runs[r].provider)
  /\ runs[r].allBuckets = OwnBuckets(r)
  /\ runs[r].outcome.kind = "returned" => runs[r].outcome.value = OwnBuckets(r)
  /\ runs[r].aggregated # None =>
       /\ runs[r].aggregated.dailyCosts
            = aggregateCosts(OwnBuckets(r), ReportStart, ReportEnd, ReportProject).dailyCosts
       /\ runs[r].aggregated.totalCost
            = aggregateCosts(OwnBuckets(r), ReportStart, ReportEnd, ReportProject).totalCost
       /\ runs[r].aggregated.billingDays = Len(OwnBuckets(r))
       /\ runs[r].aggregated.startDate = RunConfig(r, runs[r].provider).startDate
  /\ \A k \in 1..Len(runs[r].requests) :
       /\ WithoutPage(runs[r].requests[k])
            = WithoutPage([runRequest(runs[r]) EXCEPT !.page = Undefined])
       /\ runs[r].requests[k].page =
            (IF k = 1 THEN Undefined ELSE runs[r].responses[k - 1].next_page)
  /\ runs[r].nextPage =
       (IF runs[r].responses = << >> \/ ~runs[r].responses[Len(runs[r].responses)].has_more
        THEN Null ELSE runs[r].responses[Len(runs[r].responses)].next_page)

\* C24: with runs interleaved in one process, the buckets, the cursor, the
\* returned list and the AggregatedCosts of each run are those of its own pages,
\* and a step of one run leaves every other run as it was.
C24_RunsIndependent ==
  /\ [](\A r \in Runs : OwnState(r))
  /\ [][\A r \in Runs : runs'[r] # runs[r] =>
           \A q \in Runs \ {r} : runs'[q] = runs[q]]_vars

C24_Witness ==
  /\ runs[1].pc = "aggregated" /\ Len(runs[1].responses) = 2
  /\ Len(runs[1].aggregated.dailyCosts) = 3
  /\ runs[2].pc = "await" /\ Len(runs[2].responses) = 1
  /\ runs[2].allBuckets # << >>
  /\ runs[2].provider = "claude" /\ runs[1].provider = "openai"
  /\ \A i \in 1..Len(runs[1].allBuckets) : \A j \in 1..Len(runs[2].allBuckets) :
       runs[1].allBuckets[i] # runs[2].allBuckets[j]
(***************************************************************************)
(* The command line: main() of cli.ts, from process.argv and process.env   *)
(* to the exit code.  cli holds the position of main, its locals, and the  *)
(* effects of the run in the order they happened: the requests of the      *)
(* fetcher (in cli.run), the files written, the POSTs issued.              *)
(***************************************************************************)
FlagProvider == <<"-", "-", "p", "r", "o", "v", "i", "d", "e", "r">>
FlagPostUrl == <<"-", "-", "p", "o", "s", "t", "-", "u", "r", "l">>
WordOpenAI == <<"o", "p", "e", "n", "a", "i">>
WordClaude == <<"c", "l", "a", "u", "d", "e">>
WordAzure == <<"a", "z", "u", "r", "e">>
HookUrl == <<"h", "t", "t", "p", ":", "/", "/", "h", "/", "x">>

\* args.indexOf(x), counted from 1, 0 when x is not there
indexOf(args, x) ==
  IF \E i \in 1..Len(args) : args[i] = x
  THEN CHOOSE i \in 1..Len(args) : args[i] = x /\ \A j \in 1..(i - 1) : args[j] # x
  ELSE 0

\* idx >= 0 && args[idx + 1] != null ? args[idx + 1] : null
flagValue(args, idx) == IF idx > 0 /\ idx + 1 <= Len(args) THEN Str(args[idx + 1]) ELSE Null

\* args without the flags that are present and the arguments next to them
filteredArgs(args, providerIdx, postUrlIdx) ==
  LET kept == {i \in 1..Len(args) :
                 /\ ~(providerIdx > 0 /\ i \in {providerIdx, providerIdx + 1})
                 /\ ~(postUrlIdx > 0 /\ i \in {postUrlIdx, postUrlIdx + 1})}
  IN  [k \in 1..Cardinality(kept) |-> args[Nth(kept, k)]]

\* parseArguments without the call of validateDateRange
parseArguments_noRangeCheck(args) ==
  LET providerIdx == indexOf(args, FlagProvider)
      postUrlIdx == indexOf(args, FlagPostUrl)
      providerArg == flagValue(args, providerIdx)
      postUrlArg == flagValue(args, postUrlIdx)
      filtered == filteredArgs(args, providerIdx, postUrlIdx)
  IN  IF Len(filtered) # 2 THEN {Threw("Invalid arguments\n${USAGE}", << >>)}
      ELSE IF providerArg # Null /\ providerArg.s \notin {WordOpenAI, WordClaude}
      THEN {Threw("Invalid --provider: ${providerArg}. Use openai or claude.\n${USAGE}",
                  <<providerArg.s>>)}
      ELSE { LET start == parseDate(filtered[1], d1)
                 end == parseDate(filtered[2], d2)
             IN  IF start.kind = "threw" THEN start
                 ELSE IF end.kind = "threw" THEN end
                 ELSE Returned([startDate |-> filtered[1], endDate |-> filtered[2],
                                provider |-> IF providerArg = Str(WordClaude)
                                             THEN "claude" ELSE "openai",
                                postUrl |-> OrElse(postUrlArg, Undefined)])
             : d1 \in dateOfText(filtered[1]), d2 \in dateOfText(filtered[2]) }

\* parseArguments() on process.argv.slice(2): the results it can have, one for
\* each pair of Dates the engine can make of the two positional arguments
parseArguments(args) ==
  LET providerIdx == indexOf(args, FlagProvider)
      postUrlIdx == indexOf(args, FlagPostUrl)
      providerArg == flagValue(args, providerIdx)
      postUrlArg == flagValue(args, postUrlIdx)
      filtered == filteredArgs(args, providerIdx, postUrlIdx)
  IN  IF Len(filtered) # 2 THEN {Threw("Invalid arguments\n${USAGE}", << >>)}
      ELSE IF providerArg # Null /\ providerArg.s \notin {WordOpenAI, WordClaude}
      THEN {Threw("Invalid --provider: ${providerArg}. Use openai or claude.\n${USAGE}",
                  <<providerArg.s>>)}
      ELSE { LET start == parseDate(filtered[1], d1)
                 end == parseDate(filtered[2], d2)
             IN  IF start.kind = "threw" THEN start
                 ELSE IF end.kind = "threw" THEN end
                 ELSE IF validateDateRange(start.value, end.value).kind = "threw"
                 THEN validateDateRange(start.value, end.value)
                 ELSE Returned([startDate |-> filtered[1], endDate |-> filtered[2],
                                provider |-> IF providerArg = Str(WordClaude)
                                             THEN "claude" ELSE "openai",
                                postUrl |-> OrElse(postUrlArg, Undefined)])
             : d1 \in dateOfText(filtered[1]), d2 \in dateOfText(filtered[2]) }

EnvNames == {"OPENAI_ADMIN_KEY", "OPENAI_ORG_ID", "OPENAI_PROJECT_ID", "ANTHROPIC_ADMIN_API_KEY"}

\* the variables loadConfig requires of the OpenAI provider, in its order
RequiredOpenAI == <<"OPENAI_ADMIN_KEY", "OPENAI_ORG_ID", "OPENAI_PROJECT_ID">>

\* loadConfig(startDate, endDate, provider) on process.env
loadConfig(startDate, endDate, prov, env) ==
  IF prov = "openai"
  THEN LET missing == {i \in 1..Len(RequiredOpenAI) : ~Truthy(env[RequiredOpenAI[i]])}
       IN  IF missing # {}
           THEN Threw("Missing required environment variable: ${v}",
                      <<RequiredOpenAI[Nth(missing, 1)]>>)
           ELSE Returned([provider |-> "openai", startDate |-> startDate,
                          endDate |-> endDate,
                          apiKey |-> env["OPENAI_ADMIN_KEY"].s,
                          orgId |-> env["OPENAI_ORG_ID"].s,
                          projectId |-> env["OPENAI_PROJECT_ID"].s])
  ELSE IF ~Truthy(env["ANTHROPIC_ADMIN_API_KEY"])
       THEN Threw("Missing required environment variable: ANTHROPIC_ADMIN_API_KEY", << >>)
       ELSE Returned([provider |-> "claude", startDate |-> startDate, endDate |-> endDate,
                      apiKey |-> env["ANTHROPIC_ADMIN_API_KEY"].s])
\* the path of a report file: reports/<provider>/usage-<start>-to-<end>.<ext>
reportPath(agg, prov, ext) ==
  [dir |-> IF prov = "claude" THEN "reports/claude" ELSE "reports/openai",
   startDate |-> agg.startDate, endDate |-> agg.endDate, ext |-> ext]

\* the files writeReports writes with fs.writeFileSync, in its order, startDate
\* and endDate being the Dates generateMarkdownReport makes of the period
markdownAndCsvFiles(agg, orgId, prov, startDate, endDate, generated) ==
  << [path |-> reportPath(agg, prov, "md"),
      content |-> generateMarkdownReport(agg, orgId, prov, startDate, endDate, generated)],
     [path |-> reportPath(agg, prov, "csv"),
      content |-> generateCSVReport(agg)] >>

\* the JSON report: metadata, summary and the daily records in their order
generateJSONReport(agg, orgId, prov) ==
  [metadata |-> [provider |-> prov, projectId |-> agg.projectId,
                 organizationId |-> orgId,
                 billingPeriod |-> [startDate |-> agg.startDate,
                                    endDate |-> agg.endDate]],
   summary |-> [totalCost |-> agg.totalCost, billingDays |-> agg.billingDays,
                averageDailyCost |-> agg.averageDailyCost],
   dailyBreakdown |-> agg.dailyCosts]

\* the third file of writeReports
jsonFile(agg, orgId, prov) ==
  [path |-> reportPath(agg, prov, "json"), content |-> generateJSONReport(agg, orgId, prov)]

\* the one outbound call of postJSONReport
postRequest(jsonReport, postUrl) == [url |-> postUrl, body |-> jsonReport]

\* argument lists parseArguments accepts: the two dates alone, with either
\* provider, with a post URL, with a provider flag that has no value
GoodArgvs ==
  { <<Date20240101, Date20240105>>,
    <<Date20240101, Date20240105, FlagProvider, WordClaude>>,
    <<FlagProvider, WordOpenAI, Date20240101, Date20240105>>,
    <<Date20240101, Date20240105, FlagPostUrl, HookUrl>>,
    <<FlagPostUrl, HookUrl, FlagProvider, WordClaude, Date20240101, Date20240105>>,
    <<Date20240101, Date20240105, FlagProvider>> }

\* argument lists with no, too few and too many positionals, with an unknown
\* provider, with a date off the pattern, a day that does not exist, an empty
\* and a reversed range
BadArgvs ==
  { << >>,
    <<Date20240101>>,
    <<Date20240101, Date20240105, Date20240201>>,
    <<Date20240101, FlagProvider, WordAzure>>,
    <<Date20240101, Date20240105, FlagProvider, WordAzure>>,
    <<DateOffPattern, Date20240105>>,
    <<Date20240101, Date20240230>>,
    <<Date20240230, Date20240105, FlagPostUrl, HookUrl>>,
    <<Date20240105, Date20240105>>,
    <<Date20240105, Date20240101, FlagPostUrl, HookUrl>> }

CliArgvs == GoodArgvs \cup BadArgvs

EnvKey == <<"k">>
EnvOrg == <<"o", "r", "g">>

\* process.env: every variable set, or one of them unset or empty
FullEnv ==
  [v \in EnvNames |->
     IF v = "OPENAI_ORG_ID" THEN Str(EnvOrg)
     ELSE IF v = "OPENAI_PROJECT_ID" THEN Str(ReportProject)
     ELSE Str(EnvKey)]

CliEnvs ==
  {FullEnv} \cup {[FullEnv EXCEPT ![v] = Undefined] : v \in EnvNames}
    \cup {[FullEnv EXCEPT !["OPENAI_ORG_ID"] = Str(<< >>)]}

\* the pages the vendor of a command-line run answers with
CliPages(p) ==
  IF p = "openai"
  THEN { << >>, << OpenAIBucket(0, << OpenAIResult(Str(<<"a">>), Num(15000)) >>) >> }
  ELSE { << >>,
         << [starting_at |-> Jan01, ending_at |-> Jan02,
             results |-> << ClaudeResult(<<"1","2","3",".","4","5">>, Str(<<"d">>),
                                         Null, Null) >>] >> }

CliResponses(p) == [data : CliPages(p), has_more : BOOLEAN, next_page : RunCursors]

InitCli ==
  /\ provider = "openai"
  /\ fetchIdle /\ normIdle /\ aggIdle /\ dateIdle /\ reportIdle
  /\ runs = None
  /\ \E argv \in CliArgvs, env \in CliEnvs :
       cli = [pc |-> "start", argv |-> argv, env |-> env, args |-> None,
              run |-> None, aggregated |-> None, files |-> << >>, posts |-> << >>,
              exitCode |-> 0, error |-> None]

\* the catch of main: console.error and process.exit(1)
exitOnError(state, error) == [state EXCEPT !.pc = "exited", !.exitCode = 1, !.error = error]

\* main from its entry to the top of the do body of the fetcher: parseArguments,
\* loadConfig, the date conversions of the fetcher
CliStart ==
  /\ cli.pc = "start"
  /\ \E args \in parseArguments(cli.argv) :
       IF args.kind = "threw" THEN cli' = exitOnError(cli, args)
       ELSE LET cfg == loadConfig(args.value.startDate, args.value.endDate,
                                  args.value.provider, cli.env)
            IN  IF cfg.kind = "threw"
                THEN cli' = exitOnError([cli EXCEPT !.args = args.value], cfg)
                ELSE \E bounds \in RunBounds(args.value.provider, cfg.value) :
                       IF bounds.kind = "threw"
                       THEN cli' = exitOnError([cli EXCEPT !.args = args.value], bounds)
                       ELSE cli' = [cli EXCEPT
                                      !.args = args.value,
                                      !.run = fetchLocals(args.value.provider, cfg.value, bounds),
                                      !.pc = "fetching"]
  /\ UNCHANGED <<fetchVars, normVars, aggVars, dateVars, reportVars, runs>>

\* the fetcher of the run reaches its axios.get
CliIssueRequest ==
  /\ cli.pc = "fetching"
  /\ cli.run.pc \in {"idle", "loop"}
  /\ Len(cli.run.requests) < MaxRunRequests
  /\ cli' = [cli EXCEPT !.run.requests = Append(@, runRequest(cli.run)),
                        !.run.pc = "await"]
  /\ UNCHANGED <<fetchVars, normVars, aggVars, dateVars, reportVars, runs>>

\* the awaited axios.get resolves
CliReceiveResponse ==
  /\ cli.pc = "fetching"
  /\ cli.run.pc = "await"
  /\ \E resp \in CliResponses(cli.run.provider) :
       cli' = [cli EXCEPT !.run = afterResponse(@, resp)]
  /\ UNCHANGED <<fetchVars, normVars, aggVars, dateVars, reportVars, runs>>

\* a run that goes on to the reports with the pages it has when a request fails
CliReceiveError_partial ==
  /\ cli.pc = "fetching"
  /\ cli.run.pc = "await"
  /\ cli' = [cli EXCEPT !.run.pc = "done",
                        !.run.outcome = [kind |-> "returned", value |-> cli.run.allBuckets]]
  /\ UNCHANGED <<fetchVars, normVars, aggVars, dateVars, reportVars, runs>>

\* the awaited axios.get rejects: the exception leaves the fetcher and reaches
\* the catch of main
CliReceiveError ==
  /\ cli.pc = "fetching"
  /\ cli.run.pc = "await"
  /\ cli' = exitOnError([cli EXCEPT !.run.pc = "failed",
                                    !.run.outcome = [kind |-> "rejected"]],
                        Threw("Request failed", << >>))
  /\ UNCHANGED <<fetchVars, normVars, aggVars, dateVars, reportVars, runs>>

\* the projectId and orgId main passes on
cliProjectId(run) ==
  IF run.provider = "openai" THEN run.config.projectId ELSE <<"d", "e", "f", "a", "u", "l", "t">>
cliOrgId(run) ==
  IF run.provider = "openai" THEN run.config.orgId ELSE <<"d", "e", "f", "a", "u", "l", "t">>

\* the state of main after writeReports has written all of files: the POST is
\* issued when there is a post URL, else the summary is printed and main ends
afterWriteReports(state, agg, files) ==
  IF Truthy(state.args.postUrl)
  THEN [state EXCEPT !.aggregated = agg, !.files = files, !.pc = "posting",
                     !.posts = Append(@, postRequest(files[Len(files)].content,
                                                     state.args.postUrl.s))]
  ELSE [state EXCEPT !.aggregated = agg, !.files = files, !.pc = "exited"]

\* a main that posts the report before it writes the files
CliWriteReports_postFirst ==
  /\ cli.pc = "fetching"
  /\ cli.run.pc = "done"
  /\ \E startDate \in newDate(cli.args.startDate \o MidnightSuffix),
        endDate \in newDate(cli.args.endDate \o MidnightSuffix),
        generated \in GeneratedTimes :
       LET agg == aggregateCosts(cli.run.outcome.value, cli.args.startDate,
                                 cli.args.endDate, cliProjectId(cli.run))
           files == markdownAndCsvFiles(agg, cliOrgId(cli.run), cli.run.provider,
                                        startDate, endDate, generated)
                      \o << jsonFile(agg, cliOrgId(cli.run), cli.run.provider) >>
       IN  \E written \in 0..Len(files) :
             IF written < Len(files)
             THEN cli' = exitOnError(
                           [afterWriteReports(cli, agg, files) EXCEPT
                              !.files = SubSeq(files, 1, written)],
                           Threw("write failed", << >>))
             ELSE cli' = afterWriteReports(cli, agg, files)
  /\ UNCHANGED <<fetchVars, normVars, aggVars, dateVars, reportVars, runs>>

\* main from the return of the fetcher: aggregateCosts, writeReports, whose
\* mkdirSync or any of whose writeFileSync may fail, and then the POST issued or
\* the summary printed
CliWriteReports ==
  /\ cli.pc = "fetching"
  /\ cli.run.pc = "done"
  /\ \E startDate \in newDate(cli.args.startDate \o MidnightSuffix),
        endDate \in newDate(cli.args.endDate \o MidnightSuffix),
        generated \in GeneratedTimes :
       LET agg == aggregateCosts(cli.run.outcome.value, cli.args.startDate,
                                 cli.args.endDate, cliProjectId(cli.run))
           files == markdownAndCsvFiles(agg, cliOrgId(cli.run), cli.run.provider,
                                        startDate, endDate, generated)
                      \o << jsonFile(agg, cliOrgId(cli.run), cli.run.provider) >>
       IN  \E written \in 0..Len(files) :
             IF written < Len(files)
             THEN cli' = exitOnError([cli EXCEPT !.aggregated = agg,
                                                !.files = SubSeq(files, 1, written)],
                                     Threw("write failed", << >>))
             ELSE cli' = afterWriteReports(cli, agg, files)
  /\ UNCHANGED <<fetchVars, normVars, aggVars, dateVars, reportVars, runs>>

\* the awaited postJSONReport resolves: the summary is printed and main ends
CliPostResolved ==
  /\ cli.pc = "posting"
  /\ cli' = [cli EXCEPT !.pc = "exited"]
  /\ UNCHANGED <<fetchVars, normVars, aggVars, dateVars, reportVars, runs>>

\* the awaited postJSONReport rejects: the error is logged, thrown again and
\* reaches the catch of main
CliPostRejected ==
  /\ cli.pc = "posting"
  /\ cli' = exitOnError(cli, Threw("post failed", << >>))
  /\ UNCHANGED <<fetchVars, normVars, aggVars, dateVars, reportVars, runs>>

NextCli ==
  \/ CliStart
  \/ CliIssueRequest
  \/ CliReceiveResponse
  \/ CliReceiveError
  \/ CliWriteReports
  \/ CliPostResolved
  \/ CliPostRejected

SpecCli == InitCli /\ [][NextCli]_vars
(* ----------------------- properties of the command line ------------------ *)
\* the effects of the run so far
CliRequests == IF cli.run = None THEN << >> ELSE cli.run.requests
NoEffects == CliRequests = << >> /\ cli.files = << >> /\ cli.posts = << >>

\* the provider the argument list selects
SelectedProvider(argv) ==
  IF \E i \in 1..Len(argv) : argv[i] = WordClaude THEN "claude" ELSE "openai"

\* a credential variable of the selected provider is unset or empty
MissingCredential(argv, env) ==
  IF SelectedProvider(argv) = "claude" THEN env["ANTHROPIC_ADMIN_API_KEY"] # Str(EnvKey)
  ELSE \E v \in {"OPENAI_ADMIN_KEY", "OPENAI_ORG_ID", "OPENAI_PROJECT_ID"} :
         env[v] \in {Undefined, Str(<< >>)}

ValidationMessages ==
  { "Invalid arguments\n${USAGE}",
    "Invalid --provider: ${providerArg}. Use openai or claude.\n${USAGE}",
    "Invalid date format: ${dateStr}. Expected YYYY-MM-DD",
    "Invalid date: ${dateStr}",
    "End date must be after start date" }
ConfigurationMessages ==
  { "Missing required environment variable: ${v}",
    "Missing required environment variable: ANTHROPIC_ADMIN_API_KEY" }

\* C21: a run of main that ends with a validation or a configuration error has
\* sent no vendor request, written no report file and issued no POST; and a run
\* on invalid arguments or without a credential of the selected provider never
\* has any of these effects and ends with such an error.
C21_ErrorsBeforeEffects ==
  /\ cli.error # None /\ cli.error.message \in ValidationMessages \cup ConfigurationMessages
       => NoEffects /\ cli.pc = "exited" /\ cli.exitCode = 1
  /\ cli.argv \in BadArgvs \/ MissingCredential(cli.argv, cli.env)
       => /\ NoEffects
          /\ cli.pc \in {"start", "exited"}
          /\ cli.pc = "exited" =>
               /\ cli.exitCode = 1
               /\ cli.error.message \in
                    (IF cli.argv \in BadArgvs THEN ValidationMessages
                     ELSE ConfigurationMessages)

C21_Witness ==
  /\ cli.pc = "exited" /\ cli.exitCode = 1
  /\ cli.argv = <<Date20240101, Date20240105, FlagPostUrl, HookUrl>>
  /\ cli.error = Threw("Missing required environment variable: ${v}", <<"OPENAI_PROJECT_ID">>)
  /\ NoEffects

C21_ReversedRangeWitness ==
  /\ cli.pc = "exited" /\ cli.exitCode = 1
  /\ cli.argv = <<Date20240105, Date20240101, FlagPostUrl, HookUrl>>
  /\ cli.error = Threw("End date must be after start date", << >>)
  /\ cli.env = FullEnv
  /\ NoEffects

\* a request of the run got no response and is not awaited any more
CliRequestFailed ==
  /\ cli.run # None /\ cli.run.pc # "await"
  /\ Len(cli.run.requests) > Len(cli.run.responses)

\* C22: when a page request of the run fails no report file is written, no POST
\* is issued and the run exits with a code other than 0; every run that ends
\* with an error exits with a code other than 0, and a run that exits with 0 has
\* met no error and has written its report files.
C22_FetchFailureWritesNothing ==
  /\ CliRequestFailed =>
       /\ cli.files = << >> /\ cli.posts = << >> /\ cli.aggregated = None
       /\ cli.pc = "exited" /\ cli.exitCode = 1
  /\ cli.error # None => cli.pc = "exited" /\ cli.exitCode # 0
  /\ cli.pc = "exited" /\ cli.exitCode = 0 =>
       /\ cli.error = None /\ ~CliRequestFailed
       /\ Len(cli.files) = 3

C22_Witness ==
  /\ CliRequestFailed /\ Len(cli.run.requests) = 2
  /\ cli.run.allBuckets # << >>
  /\ cli.pc = "exited" /\ cli.exitCode = 1
  /\ cli.files = << >> /\ cli.posts = << >>

\* the extensions of the files written, in the order of writing
WrittenExtensions == [i \in 1..Len(cli.files) |-> cli.files[i].path.ext]

====
